---- MODULE Spec2Model ----
(***************************************************************************)
(* Model of acts/controllers/android_device.py: the per-device session     *)
(* registry (start_new_session, add_new_connection_to_session,             *)
(* get_dispatcher, get_droid, terminate_session, terminate_all_sessions,   *)
(* the droid / ed accessors), the log collector (start_adb_logcat,         *)
(* stop_adb_logcat, cat_adb_log), reboot() and wait_for_boot_completion(), *)
(* the batch bring-up create() / destroy(), and the module functions       *)
(* _parse_device_list, get_device and take_bug_reports.                    *)
(*                                                                         *)
(* Python strings are sequences of character codes, so that str(), string  *)
(* concatenation and the string ordering used by sorted() are computed     *)
(* the way Python computes them.  None / a falsy value of an integer       *)
(* attribute is 0, of a string attribute the empty sequence.               *)
(***************************************************************************)
EXTENDS Integers, Sequences, FiniteSets, TLC

VARIABLES
    ads,          \* the AndroidDevice objects (Spec: one device; SpecCreate: the batch)
    configs,      \* the configuration object handed to create()
    attached,     \* serials adb reports as attached (list_adb_devices)
    fastboot_devices, \* serials fastboot reports (list_fastboot_devices)
    pc,           \* position of create(): "idle", "loop", "returned", "raised";
                  \* "destroyed" after destroy()
    active_ads,   \* create(): indices of the devices appended to active_ads
    last,         \* the most recent call: [op, arg]; arg is the session id given to
                  \* it, or the id the server answered first (None: no answer);
                  \* op is "bootloader" when the device has since been put in
                  \* bootloader mode
    exc,          \* exception the most recent call raised to its caller ("" if none)
    ret,          \* value the most recent call returned: [droid, ed]
    calls,        \* calls made on collaborators by the current top-level call
    has_adb_log,  \* reboot(): its local has_adb_log while the device boots
    boot,         \* wait_for_boot_completion(): the clock and its locals
    cat,          \* cat_adb_log(): the log file, the window, the scan's locals
                  \* and the lines written to the excerpt
    parse,        \* _parse_device_list(): its arguments and its results
    tasks,        \* take_bug_reports(): the device list, the tasks handed to
                  \* concurrent_exec and what they did to each device
    load,         \* load_config(): the device's attributes and the config
    get,          \* get_device(): the device list, the conditions, the result
    name          \* cat_adb_log(): the strings its excerpt file name is built from

vars == <<ads, configs, attached, fastboot_devices, pc, active_ads, last, exc, ret, calls,
          has_adb_log, boot, cat, parse, tasks, load, get, name>>

\* the locals of the methods that run in several steps
locals == <<has_adb_log, boot, cat, parse, tasks, load, get, name>>

\* the locals of the methods that neither reboot() nor
\* wait_for_boot_completion() calls
others == <<cat, parse, tasks, load, get, name>>

(***************************************************************************)
(* Bounds of the model.                                                    *)
(***************************************************************************)
\* how many of the ids of UidPool the sl4a server may assign
NumUids == 2
\* open connections that neither map of a device refers to
MaxUnregistered == 1
\* longest configuration list given to create()
MaxBatch == 3
\* longest time one adb shell call of the boot wait takes
MaxShellTime == 4
\* most lines of a log file
MaxLines == 4
\* most characters of a device-list text
MaxText == 7
NumDevices == 2
MaxKeys == 3
MaxTag == 4
MaxCore == 3
MaxBegin == 2
\* utils.MAX_FILENAME_LEN, scaled down to the lengths of the names modelled
MAX_FILENAME_LEN == 8
\* latest timestamp of a log line and of a window end
MaxTime == 3

(***************************************************************************)
(* Program constants.                                                      *)
(***************************************************************************)
\* host_port=None in AndroidDevice.__init__; "not self.h_port" is true of it
NoPort == 0
\* adb_logcat_process = None
NoProcess == 0
\* what the droid / ed properties return on IndexError, and "no object" in ret
None == 0

\* ids the server may assign: one and two decimal digits, so that the numeric
\* order of the ids and the string order of their str() differ
UidPool == <<2, 10, 1, 11>>
Uids == {UidPool[i] : i \in 1..NumUids}
\* host ports the port allocator can hand out: one for each device of the
\* longest batch
Ports == 1..MaxBatch

\* serials a configuration may name: "A", which adb may report as attached,
\* and "B", which is not attached
Serials == {<<65>>, <<66>>}
AttachedSets == {{}, {<<65>>}}

(***************************************************************************)
(* Python str(int), string order and sorted().                             *)
(***************************************************************************)
RECURSIVE Str(_)
\* str(n) for n >= 0: the decimal digits, as character codes
Str(n) == IF n < 10 THEN <<48 + n>> ELSE Str(n \div 10) \o <<48 + (n % 10)>>

RECURSIVE StrLess(_, _)
\* a < b for Python strings: lexicographic by character code
StrLess(a, b) ==
    IF Len(b) = 0 THEN FALSE
    ELSE IF Len(a) = 0 THEN TRUE
    ELSE IF Head(a) # Head(b) THEN Head(a) < Head(b)
    ELSE StrLess(Tail(a), Tail(b))

RECURSIVE SortedInts(_)
\* sorted(S) for a set of ints (the keys of _droid_sessions)
SortedInts(S) ==
    IF S = {} THEN <<>>
    ELSE LET m == CHOOSE x \in S : \A y \in S : x <= y
         IN  <<m>> \o SortedInts(S \ {m})

RECURSIVE SortedStrs(_)
\* sorted(S) for a set of strings (the keys of _event_dispatchers)
SortedStrs(S) ==
    IF S = {} THEN <<>>
    ELSE LET m == CHOOSE x \in S : \A y \in S : x = y \/ StrLess(x, y)
         IN  <<m>> \o SortedStrs(S \ {m})

(***************************************************************************)
(* Dictionaries.                                                           *)
(***************************************************************************)
EmptyDict == [k \in {} |-> None]
DictSet(d, k, v) == [x \in DOMAIN d \cup {k} |-> IF x = k THEN v ELSE d[x]]
DictDel(d, k) == [x \in DOMAIN d \ {k} |-> d[x]]

(***************************************************************************)
(* AndroidDevice.                                                          *)
(*   serial, h_port, _droid_sessions, _event_dispatchers,                  *)
(*   adb_logcat_process, adb_logcat_file_path, skip_sl4a: the attributes.  *)
(*   forwards: host ports adb forwards to this device.                     *)
(*   conns: the Android objects whose connection to this device's sl4a     *)
(*          server is open.                                                *)
(*   unregistered: how many more connections are open that neither map     *)
(*          refers to (see Settle).                                        *)
(*   procs: the running logcat subprocesses of this device.                *)
(* An Android object is [uid, aux, n]: the session id it carries, whether  *)
(* it was opened with cmd='continue', and n, which tells apart the objects *)
(* of one session and kind that are alive at the same time (object         *)
(* identity).  An EventDispatcher is [droid, started]: droid is the        *)
(* Android object it was built on.                                         *)
(***************************************************************************)
NewAndroidDevice(serial, skip) ==
    [ serial |-> serial,
      h_port |-> NoPort,
      droid_sessions |-> EmptyDict,
      event_dispatchers |-> EmptyDict,
      adb_logcat_process |-> NoProcess,
      adb_logcat_file_path |-> <<>>,
      skip_sl4a |-> skip,
      forwards |-> {},
      conns |-> {},
      unregistered |-> 0,
      procs |-> {} ]

\* "no Android object" and "no EventDispatcher" (Python None)
NoDroid == [uid |-> None, aux |-> FALSE, n |-> None]
NoEd == [droid |-> NoDroid, started |-> FALSE]

\* result of a call on a device: the device afterwards, the exception raised
\* ("" if none), the returned objects, the collaborator calls made
Result(ad, e, droid, ed, cs) ==
    [ad |-> ad, exc |-> e, droid |-> droid, ed |-> ed, calls |-> cs]

\* the Android objects the two maps refer to
Registered(ad) ==
    {ad.droid_sessions[u][1] : u \in DOMAIN ad.droid_sessions}
      \cup {ad.event_dispatchers[k].droid : k \in DOMAIN ad.event_dispatchers}

\* open connections neither map refers to
Unregistered(ad) == ad.conns \ Registered(ad)

\* The device when a call on it has ended.  A connection left open that the
\* maps do not refer to stays open for good (nothing in AndroidDevice can
\* close it): from here on only their number is kept.
Settle(ad) ==
    [ad EXCEPT !.conns = @ \cap Registered(ad),
               !.unregistered = @ + Cardinality(Unregistered(ad))]

\* a newly constructed Android object: distinct from every object alive
NewAndroid(ad, uid, aux) ==
    LET alive == ad.conns \cup Registered(ad)
        n == CHOOSE i \in 1..(Cardinality(alive) + 1) :
                 /\ [uid |-> uid, aux |-> aux, n |-> i] \notin alive
                 /\ \A j \in 1..(i - 1) : [uid |-> uid, aux |-> aux, n |-> j] \in alive
    IN  [uid |-> uid, aux |-> aux, n |-> n]

\* the device stays within the bounds of the model
Bounded(ad) == ad.unregistered + Cardinality(Unregistered(ad)) <= MaxUnregistered

(***************************************************************************)
(* The accessors.                                                          *)
(***************************************************************************)
\* AndroidDevice.droid
Droid(ad) ==
    IF DOMAIN ad.droid_sessions = {} THEN NoDroid
    ELSE ad.droid_sessions[SortedInts(DOMAIN ad.droid_sessions)[1]][1]

\* AndroidDevice.ed
Ed(ad) ==
    IF DOMAIN ad.event_dispatchers = {} THEN NoEd
    ELSE ad.event_dispatchers[SortedStrs(DOMAIN ad.event_dispatchers)[1]]

\* AndroidDevice.droids
Droids(ad) ==
    LET keys == SortedInts(DOMAIN ad.droid_sessions)
    IN  [i \in 1..Len(keys) |-> ad.droid_sessions[keys[i]][1]]

\* AndroidDevice.eds
Eds(ad) ==
    LET keys == SortedStrs(DOMAIN ad.event_dispatchers)
    IN  [i \in 1..Len(keys) |-> ad.event_dispatchers[keys[i]]]

\* AndroidDevice.is_adb_logcat_on
IsAdbLogcatOn(ad) == ad.adb_logcat_process # NoProcess

\* ed_key = self.serial + str(uid)
EdKey(ad, uid) == ad.serial \o Str(uid)

(***************************************************************************)
(* The session registry.  The outcome of every call on an external         *)
(* collaborator (the sl4a server, adb, the dispatcher) is an input.        *)
(***************************************************************************)
\* start_new_session without the check of lines 660-662: the new object
\* replaces the registered one
StartNewSession_NoCollisionCheck(ad, connected, uid) ==
    IF ~connected
    THEN Result(ad, "ConnectError", NoDroid, NoEd, <<"Android">>)
    ELSE LET droid == NewAndroid(ad, uid, FALSE)
         IN  Result([ad EXCEPT !.conns = @ \cup {droid},
                               !.droid_sessions = DictSet(@, uid, <<droid>>)],
                    "", droid, NoEd, <<"Android">>)

\* start_new_session.  connected: android.Android(port) reached the server;
\* uid: the id the server assigned.
StartNewSession(ad, connected, uid) ==
    IF ~connected
    THEN Result(ad, "ConnectError", NoDroid, NoEd, <<"Android">>)
    ELSE LET droid == NewAndroid(ad, uid, FALSE)
             opened == [ad EXCEPT !.conns = @ \cup {droid}]
         IN  IF uid \in DOMAIN ad.droid_sessions
             THEN Result(opened, "SL4AException", NoDroid, NoEd, <<"Android">>)
             ELSE Result([opened EXCEPT !.droid_sessions = DictSet(@, uid, <<droid>>)],
                         "", droid, NoEd, <<"Android">>)

\* add_new_connection_to_session.  connected: android.Android(cmd='continue')
\* reached the server.
AddNewConnectionToSession(ad, session_id, connected) ==
    IF session_id \notin DOMAIN ad.droid_sessions
    THEN Result(ad, "DoesNotExistError", NoDroid, NoEd, <<>>)
    ELSE IF ~connected
    THEN Result(ad, "ConnectError", NoDroid, NoEd, <<"Android">>)
    ELSE LET droid == NewAndroid(ad, session_id, TRUE)
         IN  Result([ad EXCEPT !.conns = @ \cup {droid}], "", droid, NoEd,
                    <<"Android">>)

\* get_dispatcher without the cache lookup of lines 514-519: every call
\* builds a dispatcher
GetDispatcher_AlwaysNew(ad, droid, connected) ==
    LET r == AddNewConnectionToSession(ad, droid.uid, connected)
        ed == [droid |-> r.droid, started |-> FALSE]
    IN  IF r.exc # "" THEN r
        ELSE Result([r.ad EXCEPT !.event_dispatchers = DictSet(@, EdKey(ad, droid.uid), ed)],
                    "", NoDroid, ed, r.calls \o <<"EventDispatcher">>)

\* get_dispatcher(droid)
GetDispatcher(ad, droid, connected) ==
    LET ed_key == EdKey(ad, droid.uid)
    IN  IF ed_key \in DOMAIN ad.event_dispatchers
        THEN IF ad.event_dispatchers[ed_key] = NoEd
             THEN Result(ad, "AndroidDeviceError", NoDroid, NoEd, <<>>)
             ELSE Result(ad, "", NoDroid, ad.event_dispatchers[ed_key], <<>>)
        ELSE LET r == AddNewConnectionToSession(ad, droid.uid, connected)
                 ed == [droid |-> r.droid, started |-> FALSE]
             IN  IF r.exc # "" THEN r
                 ELSE Result([r.ad EXCEPT !.event_dispatchers = DictSet(@, ed_key, ed)],
                             "", NoDroid, ed, r.calls \o <<"EventDispatcher">>)

(***************************************************************************)
(* The port allocator (acts.controllers.adb, not part of the sources) and  *)
(* adb's forward list.                                                     *)
(***************************************************************************)
\* host ports some device of the batch has forwarded
BusyPorts(devs) == UNION {devs[i].forwards : i \in DOMAIN devs}

\* adb.get_available_host_port(): a port nobody listens on
GetAvailableHostPort(busy) == CHOOSE p \in Ports \ busy : \A q \in Ports \ busy : p <= q

\* adb.tcp_forward(h_port, d_port)
TcpForward(ad, port) == [ad EXCEPT !.forwards = @ \cup {port}]

\* adb.forward("--remove tcp:%d" % h_port)
ForwardRemove(ad, port) == [ad EXCEPT !.forwards = @ \ {port}]

(***************************************************************************)
(* get_droid.  in: [avail, c1, u1, c2, u2, c3, handle_event]               *)
(*   avail: what adb.is_port_available(h_port) answers;                    *)
(*   c1, u1 / c2, u2: outcome of the first / second start_new_session;     *)
(*   c3: outcome of the connection get_dispatcher opens.                   *)
(***************************************************************************)
\* lines 491-493: choose the host port and forward it
GetDroidForward(ad, busy, avail) ==
    LET port == IF ad.h_port = NoPort \/ ~avail
                THEN GetAvailableHostPort(busy) ELSE ad.h_port
    IN  TcpForward([ad EXCEPT !.h_port = port], port)

\* lines 494-498 with the retry in a loop: a failed second attempt is
\* followed by another bootstrap and a third attempt
GetDroidSession_RetriesAgain(ad, in) ==
    LET Third(first, second, third) ==
            [third EXCEPT
                !.calls = <<"start_new_session", first.exc, "start_sl4a",
                            "start_new_session", second.exc, "start_sl4a",
                            "start_new_session">>
                            \o (IF third.exc # "" THEN <<third.exc>> ELSE <<>>)]
        Second(first, second) ==
            IF second.exc = ""
            THEN [second EXCEPT
                    !.calls = <<"start_new_session", first.exc, "start_sl4a",
                                "start_new_session">>]
            ELSE Third(first, second, StartNewSession(second.ad, in.c2, in.u2))
        First(first) ==
            IF first.exc = ""
            THEN [first EXCEPT !.calls = <<"start_new_session">>]
            ELSE Second(first, StartNewSession(first.ad, in.c2, in.u2))
    IN  First(StartNewSession(ad, in.c1, in.u1))

\* lines 494-498: open the session, with the bootstrap-and-retry path.  The
\* calls list each attempt, followed by the exception it raised, if any.
GetDroidSession(ad, in) ==
    LET Second(first, second) ==
            [second EXCEPT
                !.calls = <<"start_new_session", first.exc, "start_sl4a",
                            "start_new_session">>
                            \o (IF second.exc # "" THEN <<second.exc>> ELSE <<>>)]
        First(first) ==
            IF first.exc = ""
            THEN [first EXCEPT !.calls = <<"start_new_session">>]
            ELSE Second(first, StartNewSession(first.ad, in.c2, in.u2))
    IN  First(StartNewSession(ad, in.c1, in.u1))

\* get_droid(handle_event).  busy: the host ports in use.
GetDroid(ad, busy, in) ==
    LET Dispatched(s, d) ==
            Result(d.ad, d.exc, IF d.exc = "" THEN s.droid ELSE NoDroid, d.ed,
                   <<"tcp_forward">> \o s.calls \o <<"get_dispatcher">>)
        Opened(s) ==
            IF s.exc # "" \/ ~in.handle_event
            THEN [s EXCEPT !.calls = <<"tcp_forward">> \o @]
            ELSE Dispatched(s, GetDispatcher(s.ad, s.droid, in.c3))
    IN  Opened(GetDroidSession(GetDroidForward(ad, busy, in.avail), in))

(***************************************************************************)
(* Termination.  out: "ok", "close_raises" (closeSl4aSession / close of    *)
(* the session's connection raises), "clean_up_raises" (the dispatcher's   *)
(* clean_up raises).                                                       *)
(***************************************************************************)
\* EventDispatcher.clean_up() (acts.controllers.event_dispatcher): stops the
\* dispatcher and closes the connection it owns
EdCleanUp(ad, ed_key) ==
    [ad EXCEPT !.event_dispatchers[ed_key].started = FALSE,
               !.conns = @ \ {ad.event_dispatchers[ed_key].droid}]

\* lines 696-700 without the membership test of line 696: an id that is not
\* registered makes the lookup raise
TerminateSessionDroids_UnknownIdRaises(ad, session_id, out) ==
    IF session_id \in DOMAIN ad.droid_sessions
    THEN IF out = "close_raises"
         THEN Result(ad, "CloseError", NoDroid, NoEd, <<"closeSl4aSession">>)
         ELSE Result([ad EXCEPT
                        !.conns = @ \ {ad.droid_sessions[session_id][i] :
                                          i \in 1..Len(ad.droid_sessions[session_id])},
                        !.droid_sessions = DictDel(@, session_id)],
                     "", NoDroid, NoEd, <<"closeSl4aSession", "close">>)
    ELSE Result(ad, "KeyError", NoDroid, NoEd, <<>>)

\* lines 696-700 of terminate_session: close and forget the session's connections
TerminateSessionDroids(ad, session_id, out) ==
    IF DOMAIN ad.droid_sessions # {} /\ session_id \in DOMAIN ad.droid_sessions
    THEN IF out = "close_raises"
         THEN Result(ad, "CloseError", NoDroid, NoEd, <<"closeSl4aSession">>)
         ELSE Result([ad EXCEPT
                        !.conns = @ \ {ad.droid_sessions[session_id][i] :
                                          i \in 1..Len(ad.droid_sessions[session_id])},
                        !.droid_sessions = DictDel(@, session_id)],
                     "", NoDroid, NoEd, <<"closeSl4aSession", "close">>)
    ELSE Result(ad, "", NoDroid, NoEd, <<>>)

\* lines 701-704 with the device's first dispatcher (ad.ed) taken in place
\* of the session's
TerminateSessionEd_FirstDispatcher(ad, session_id, out) ==
    IF DOMAIN ad.event_dispatchers # {}
    THEN IF out = "clean_up_raises"
         THEN Result(ad, "CleanUpError", NoDroid, NoEd, <<"clean_up">>)
         ELSE Result([EdCleanUp(ad, SortedStrs(DOMAIN ad.event_dispatchers)[1]) EXCEPT
                        !.event_dispatchers =
                            DictDel(@, SortedStrs(DOMAIN ad.event_dispatchers)[1])],
                     "", NoDroid, NoEd, <<"clean_up">>)
    ELSE Result(ad, "", NoDroid, NoEd, <<>>)

\* lines 701-704 of terminate_session: clean up and forget the dispatcher
TerminateSessionEd(ad, session_id, out) ==
    LET ed_key == EdKey(ad, session_id)
    IN  IF ed_key \in DOMAIN ad.event_dispatchers
        THEN IF out = "clean_up_raises"
             THEN Result(ad, "CleanUpError", NoDroid, NoEd, <<"clean_up">>)
             ELSE Result([EdCleanUp(ad, ed_key) EXCEPT
                            !.event_dispatchers = DictDel(@, ed_key)],
                         "", NoDroid, NoEd, <<"clean_up">>)
        ELSE Result(ad, "", NoDroid, NoEd, <<>>)

\* terminate_session(session_id)
TerminateSession(ad, session_id, out) ==
    LET Dispatcher(a, b) == [b EXCEPT !.calls = a.calls \o @]
        Closed(a) ==
            IF a.exc # "" THEN a
            ELSE Dispatcher(a, TerminateSessionEd(a.ad, session_id, out))
    IN  Closed(TerminateSessionDroids(ad, session_id, out))

RECURSIVE TerminateEach_StopsAtFailure(_, _, _)
\* the loop of terminate_all_sessions without the try/except of lines
\* 714-718: the first failure ends the loop
TerminateEach_StopsAtFailure(ad, session_ids, outs) ==
    IF session_ids = <<>> THEN Result(ad, "", NoDroid, NoEd, <<>>)
    ELSE LET Joined(t, rest) ==
                 [rest EXCEPT !.calls = <<"terminate_session">> \o t.calls \o @]
             Terminated(t) ==
                 IF t.exc # "" THEN [t EXCEPT !.calls = <<"terminate_session">> \o @]
                 ELSE Joined(t, TerminateEach_StopsAtFailure(t.ad, Tail(session_ids), outs))
         IN  Terminated(TerminateSession(ad, Head(session_ids), outs[Head(session_ids)]))

RECURSIVE TerminateEach(_, _, _)
\* the loop of terminate_all_sessions over session_ids; a failure is logged
TerminateEach(ad, session_ids, outs) ==
    IF session_ids = <<>> THEN Result(ad, "", NoDroid, NoEd, <<>>)
    ELSE LET Joined(t, rest) ==
                 [rest EXCEPT !.calls = <<"terminate_session">> \o t.calls
                                          \o (IF t.exc # "" THEN <<"log.exception">> ELSE <<>>)
                                          \o @]
             Terminated(t) == Joined(t, TerminateEach(t.ad, Tail(session_ids), outs))
         IN  Terminated(TerminateSession(ad, Head(session_ids), outs[Head(session_ids)]))

\* terminate_all_sessions.  outs: session id -> outcome of its termination
TerminateAllSessions(ad, outs) ==
    IF DOMAIN ad.droid_sessions # {}
    THEN LET Released(t) ==
                 IF t.ad.h_port # NoPort
                 THEN Result([ForwardRemove(t.ad, t.ad.h_port) EXCEPT !.h_port = NoPort],
                             "", NoDroid, NoEd, t.calls \o <<"forward_remove">>)
                 ELSE t
         IN  Released(TerminateEach(ad, SortedInts(DOMAIN ad.droid_sessions), outs))
    ELSE Result(ad, "", NoDroid, NoEd, <<>>)

(***************************************************************************)
(* The log collector.  started: whether every external step of             *)
(* start_adb_logcat (adb shell, model, create_dir, the subprocess start)   *)
(* succeeded.                                                              *)
(***************************************************************************)
\* the file name "adblog,<model>,<serial>.txt" under log_path
LogcatFilePath(ad) == <<97, 100, 98, 108, 111, 103, 44>> \o ad.serial

\* start_adb_logcat without line 598's assignment: the subprocess runs, its
\* handle is not kept
StartAdbLogcat_HandleNotKept(ad, started) ==
    IF IsAdbLogcatOn(ad)
    THEN Result(ad, "AndroidDeviceError", NoDroid, NoEd, <<>>)
    ELSE IF ~started
    THEN Result(ad, "AdbError", NoDroid, NoEd, <<"logpersist.start">>)
    ELSE Result([ad EXCEPT !.procs = @ \cup {1 + Cardinality(ad.procs)},
                           !.adb_logcat_file_path = LogcatFilePath(ad)],
                "", NoDroid, NoEd, <<"logpersist.start", "start_standing_subprocess">>)

\* start_adb_logcat without the check of lines 583-586
StartAdbLogcat_NoGuard(ad, started) ==
    IF ~started
    THEN Result(ad, "AdbError", NoDroid, NoEd, <<"logpersist.start">>)
    ELSE LET pid == 1 + Cardinality(ad.procs)
         IN  Result([ad EXCEPT !.adb_logcat_process = pid,
                               !.procs = @ \cup {pid},
                               !.adb_logcat_file_path = LogcatFilePath(ad)],
                    "", NoDroid, NoEd, <<"logpersist.start", "start_standing_subprocess">>)

\* start_adb_logcat
StartAdbLogcat(ad, started) ==
    IF IsAdbLogcatOn(ad)
    THEN Result(ad, "AndroidDeviceError", NoDroid, NoEd, <<>>)
    ELSE IF ~started
    THEN Result(ad, "AdbError", NoDroid, NoEd, <<"logpersist.start">>)
    ELSE LET pid == 1 + Cardinality(ad.procs)
         IN  Result([ad EXCEPT !.adb_logcat_process = pid,
                               !.procs = @ \cup {pid},
                               !.adb_logcat_file_path = LogcatFilePath(ad)],
                    "", NoDroid, NoEd, <<"logpersist.start", "start_standing_subprocess">>)

\* stop_adb_logcat that clears the log file path along with the handle
StopAdbLogcat_ForgetsPath(ad) ==
    IF ~IsAdbLogcatOn(ad)
    THEN Result(ad, "AndroidDeviceError", NoDroid, NoEd, <<>>)
    ELSE Result([ad EXCEPT !.procs = @ \ {ad.adb_logcat_process},
                           !.adb_logcat_process = NoProcess,
                           !.adb_logcat_file_path = <<>>],
                "", NoDroid, NoEd, <<"stop_standing_subprocess">>)

\* stop_adb_logcat
StopAdbLogcat(ad) ==
    IF ~IsAdbLogcatOn(ad)
    THEN Result(ad, "AndroidDeviceError", NoDroid, NoEd, <<>>)
    ELSE Result([ad EXCEPT !.procs = @ \ {ad.adb_logcat_process},
                           !.adb_logcat_process = NoProcess],
                "", NoDroid, NoEd, <<"stop_standing_subprocess">>)

(***************************************************************************)
(* Spec: one constructed device and the calls a test makes on it.          *)
(***************************************************************************)
Outcomes == {"ok", "close_raises", "clean_up_raises"}

\* what android.Android(port) meets: no server (<<FALSE, None>>) or a server
\* that assigns an id
Answers == {<<FALSE, None>>} \cup {<<TRUE, u>> : u \in Uids}

\* whether start_new_session raises on answer a
SessionFails(ad, a) == ~a[1] \/ a[2] \in DOMAIN ad.droid_sessions

\* the inputs of get_droid that matter in the state of ad
GetDroidInputs(ad, handle_events) ==
    {[avail |-> av, c1 |-> a1[1], u1 |-> a1[2], c2 |-> a2[1], u2 |-> a2[2],
      c3 |-> c3, handle_event |-> he] :
        av \in (IF ad.h_port = NoPort THEN {TRUE} ELSE BOOLEAN),
        a1 \in Answers, a2 \in Answers, c3 \in BOOLEAN, he \in handle_events}

\* an input of get_droid with no part that get_droid does not read
Canonical(ad, in) ==
    /\ ~SessionFails(ad, <<in.c1, in.u1>>) => (in.c2 = in.c1 /\ in.u2 = in.u1)
    /\ (~in.handle_event
          \/ (SessionFails(ad, <<in.c1, in.u1>>) /\ SessionFails(ad, <<in.c2, in.u2>>)))
         => in.c3

\* the Android object a caller holds for session uid
DroidArg(ad, uid) ==
    IF uid \in DOMAIN ad.droid_sessions THEN ad.droid_sessions[uid][1]
    ELSE [uid |-> uid, aux |-> FALSE, n |-> None]

\* cat_adb_log not entered: log is the log file (its lines), begin_time and
\* end_time the window, pos the lines read, in_range the local of that name,
\* out the numbers of the lines written to the excerpt, in the order written
NoCat == [log |-> <<>>, begin_time |-> None, end_time |-> None, pos |-> 0,
          in_range |-> FALSE, out |-> <<>>]

\* _parse_device_list not entered
NoParse == [device_list_str |-> <<>>, key |-> <<>>, results |-> <<>>]

\* get_device not entered: ads is the device list, kwargs the conditions in
\* iteration order, ret the position in ads of the device returned (0: none)
NoGet == [ads |-> <<>>, kwargs |-> <<>>, ret |-> 0]

\* cat_adb_log has built no file name: tag and begin_time are its arguments,
\* f_name the base name of the log file, out_name the name of the excerpt
NoName == [tag |-> <<>>, begin_time |-> <<>>, f_name |-> <<>>, out_name |-> <<>>]

\* load_config not entered: attrs are the instance attributes __init__ has
\* set, with their values; config the items of the dictionary in iteration
\* order; adb_ok whether adb shell answers (or raises AdbError)
NoLoad == [attrs |-> [k \in {"serial", "h_port", "d_port", "log_path", "adb"} |-> 0],
           config |-> <<>>, adb_ok |-> TRUE]

\* take_bug_reports not entered: ads is its argument (the devices by number),
\* task the tasks running take_br, users[d] the tasks that called into
\* device d, reports[d] the bug reports stored for device d
NoTasks == [ads |-> <<>>, task |-> <<>>,
            users |-> [d \in 1..NumDevices |-> {}],
            reports |-> [d \in 1..NumDevices |-> 0]]

\* wait_for_boot_completion not entered: now is time.time(), timeout_start
\* its local, completed the answer of the latest poll ("" before the first,
\* "AdbError" when the poll raised), polls the polls started, slept the time
\* spent in time.sleep
NoBoot == [now |-> 0, timeout_start |-> 0, completed |-> "", polls |-> 0, slept |-> 0]

Init ==
    /\ ads = <<NewAndroidDevice(<<65>>, FALSE)>>
    /\ configs = <<>>
    /\ attached = {<<65>>}
    /\ pc = "idle"
    /\ active_ads = <<>>
    /\ last = [op |-> "init", arg |-> 0]
    /\ exc = ""
    /\ ret = [droid |-> NoDroid, ed |-> NoEd]
    /\ calls = <<>>
    /\ fastboot_devices = {}
    /\ has_adb_log = FALSE
    /\ boot = NoBoot
    /\ cat = NoCat
    /\ parse = NoParse
    /\ tasks = NoTasks
    /\ load = NoLoad
    /\ get = NoGet
    /\ name = NoName

\* the effect of a call on device 1 with result r
Called(op, arg, r) ==
    /\ Bounded(r.ad)
    /\ ads' = [ads EXCEPT ![1] = Settle(r.ad)]
    /\ last' = [op |-> op, arg |-> arg]
    /\ exc' = r.exc
    /\ ret' = [droid |-> r.droid, ed |-> r.ed]
    /\ calls' = r.calls
    /\ UNCHANGED <<configs, attached, fastboot_devices, pc, active_ads, locals>>

DoStartNewSession ==
    \E a \in Answers :
        Called("start_new_session", a[2], StartNewSession(ads[1], a[1], a[2]))

DoAddNewConnectionToSession ==
    \E sid \in Uids, c \in BOOLEAN :
        Called("add_new_connection_to_session", sid,
               AddNewConnectionToSession(ads[1], sid, c))

DoGetDispatcher ==
    \E u \in Uids, c \in BOOLEAN :
        Called("get_dispatcher", u, GetDispatcher(ads[1], DroidArg(ads[1], u), c))

DoGetDroid ==
    \E in \in GetDroidInputs(ads[1], BOOLEAN) :
        /\ Canonical(ads[1], in)
        /\ Ports \ BusyPorts(ads) # {}
        /\ Called("get_droid", in.u1, GetDroid(ads[1], BusyPorts(ads), in))

DoTerminateSession ==
    \E sid \in Uids, out \in Outcomes :
        Called("terminate_session", sid, TerminateSession(ads[1], sid, out))

DoTerminateAllSessions ==
    \E outs \in [DOMAIN ads[1].droid_sessions -> Outcomes] :
        Called("terminate_all_sessions", 0, TerminateAllSessions(ads[1], outs))

Next ==
    \/ DoStartNewSession
    \/ DoAddNewConnectionToSession
    \/ DoGetDispatcher
    \/ DoGetDroid
    \/ DoTerminateSession
    \/ DoTerminateAllSessions

Spec == Init /\ [][Next]_vars

(***************************************************************************)
(* Configurations.  The object given to create() is [kind, items]:         *)
(*   kind "empty"   a falsy value (None, [], "")                           *)
(*   kind "token"   ANDROID_DEVICE_PICK_ALL_TOKEN                          *)
(*   kind "notlist" any other value that is not a list                     *)
(*   kind "serials" a list of serial strings, in items                     *)
(*   kind "dicts"   a list of dicts, in items; a dict is a function from   *)
(*                  its keys to their values.                              *)
(***************************************************************************)
\* the dicts a configuration list may hold: "serial" present or missing,
\* "skip_sl4a" set or absent
ConfigDicts ==
    {[k \in {"serial"} |-> sn] : sn \in Serials}
      \cup {[k \in {"serial", "skip_sl4a"} |-> IF k = "serial" THEN sn ELSE <<49>>] :
              sn \in Serials}
      \cup {EmptyDict}

ListsOf(S) == UNION {[1..n -> S] : n \in 1..MaxBatch}

ConfigSpace ==
    {[kind |-> k, items |-> <<>>] : k \in {"empty", "token", "notlist"}}
      \cup {[kind |-> "serials", items |-> l] : l \in ListsOf(Serials)}
      \cup {[kind |-> "dicts", items |-> l] : l \in ListsOf(ConfigDicts)}

\* names an AndroidDevice has after __init__ (attributes, properties, methods)
\* among the keys a configuration may use
ExistingAttributes == {"serial", "h_port", "d_port", "log_path", "adb", "droid", "ed"}

\* load_config(config): the device with the config's skip_sl4a, or the error
LoadConfig(ad, config) ==
    IF DOMAIN config \cap ExistingAttributes # {}
    THEN Result(ad, "AndroidDeviceError", NoDroid, NoEd, <<>>)
    ELSE Result([ad EXCEPT !.skip_sl4a = "skip_sl4a" \in DOMAIN config /\ config["skip_sl4a"] # <<>>],
                "", NoDroid, NoEd, <<>>)

\* get_instances(serials)
GetInstances(serials) == [i \in 1..Len(serials) |-> NewAndroidDevice(serials[i], FALSE)]

RECURSIVE GetInstancesWithConfigs(_, _, _)
\* get_instances_with_configs(configs): [cfgs, ads, exc] after the loop has
\* run from position i with the devices `results` built so far; cfgs is the
\* list as c.pop("serial") leaves it
GetInstancesWithConfigs(cfgs, i, results) ==
    IF i > Len(cfgs) THEN [cfgs |-> cfgs, ads |-> results, exc |-> ""]
    ELSE IF "serial" \notin DOMAIN cfgs[i]
    THEN [cfgs |-> cfgs, ads |-> results, exc |-> "AndroidDeviceError"]
    ELSE LET c == DictDel(cfgs[i], "serial")
             popped == [cfgs EXCEPT ![i] = c]
             r == LoadConfig(NewAndroidDevice(cfgs[i]["serial"], FALSE), c)
         IN  IF r.exc # "" THEN [cfgs |-> popped, ads |-> results, exc |-> r.exc]
             ELSE GetInstancesWithConfigs(popped, i + 1, Append(results, r.ad))

\* lines 52-63 of create: [cfgs, ads, exc]
CreateInstances(cfg, connected) ==
    IF cfg.kind = "empty"
    THEN [cfgs |-> cfg.items, ads |-> <<>>, exc |-> "AndroidDeviceError"]
    ELSE IF cfg.kind = "token"
    THEN [cfgs |-> cfg.items, ads |-> GetInstances(SortedStrs(connected)), exc |-> ""]
    ELSE IF cfg.kind = "notlist"
    THEN [cfgs |-> cfg.items, ads |-> <<>>, exc |-> "AndroidDeviceError"]
    ELSE IF cfg.kind = "serials"
    THEN [cfgs |-> cfg.items, ads |-> GetInstances(cfg.items), exc |-> ""]
    ELSE GetInstancesWithConfigs(cfg.items, 1, <<>>)

\* create without the check of lines 67-70
AllAttached_NotChecked(devs, connected) == TRUE

\* lines 67-70 of create: every device must be attached
AllAttached(devs, connected) == \A i \in DOMAIN devs : devs[i].serial \in connected

(***************************************************************************)
(* create(): the bring-up loop, _cleanup and destroy().  A step on a batch *)
(* yields [ads, exc, calls]: the devices afterwards, the exception that    *)
(* ends create() ("" if none) and the calls made, each <<call, device>>.   *)
(***************************************************************************)
Batch(devs, e, cs) == [ads |-> devs, exc |-> e, calls |-> cs]

\* the calls of a device-level result, tagged with the device
Tagged(cs, i) == [j \in 1..Len(cs) |-> <<cs[j], i>>]

RECURSIVE Destroy(_, _, _)
\* destroy(ads) for the devices whose indices are listed in which; outs[i] is
\* how the termination of device i's sessions ends
Destroy(devs, which, outs) ==
    IF which = <<>> THEN Batch(devs, "", <<>>)
    ELSE LET i == Head(which)
             Stopped(ad) == IF IsAdbLogcatOn(ad) THEN StopAdbLogcat(ad).ad ELSE ad
             Joined(t, rest) ==
                 Batch(rest.ads, "",
                       <<<<"terminate_all_sessions", i>>>> \o Tagged(t.calls, i)
                         \o (IF IsAdbLogcatOn(t.ad) THEN <<<<"stop_adb_logcat", i>>>>
                             ELSE <<>>)
                         \o rest.calls)
             Terminated(t) ==
                 Joined(t, Destroy([devs EXCEPT ![i] = Settle(Stopped(t.ad))],
                                   Tail(which), outs))
         IN  Terminated(TerminateAllSessions(devs[i],
                            [u \in DOMAIN devs[i].droid_sessions |-> outs[i]]))

\* _cleanup(msg, ad, active_ads) for ad = devs[k].  msg: "logcat" for "Failed
\* to start logcat", "sl4a" for "Failed to start sl4a"; clean_up_ok: whether
\* ad.ed.clean_up() returns.
Cleanup(devs, k, msg, active, clean_up_ok, outs) ==
    LET Raised(cs, d) == Batch(d.ads, "AndroidDeviceError", cs \o d.calls)
        Rollback(ad, cs) ==
            Raised(cs, Destroy([devs EXCEPT ![k] = Settle(ad)], active, outs))
        CleanEd(stopped, cs) ==
            IF Ed(stopped) = NoEd THEN Rollback(stopped, cs)
            ELSE IF ~clean_up_ok
            THEN Batch([devs EXCEPT ![k] = Settle(stopped)], "CleanUpError",
                       cs \o <<<<"clean_up", k>>>>)
            ELSE Rollback(EdCleanUp(stopped,
                                    SortedStrs(DOMAIN stopped.event_dispatchers)[1]),
                          cs \o <<<<"clean_up", k>>>>)
    IN  IF IsAdbLogcatOn(devs[k])
        THEN CleanEd(StopAdbLogcat(devs[k]).ad, <<<<msg, k>>, <<"stop_adb_logcat", k>>>>)
        ELSE CleanEd(devs[k], <<<<msg, k>>>>)

\* [ads, exc, calls, msg] of a bring-up
Brought(devs, e, cs, msg) == [ads |-> devs, exc |-> e, calls |-> cs, msg |-> msg]

\* lines 88-99 of create without the second try/except: a failure of
\* ed.start() is not noticed and the device counts as brought up
BringUp_EdStartFailureIgnored(devs, k, started, gd, ed_start_ok) ==
    LET Up(ad, e, cs, msg) == Brought([devs EXCEPT ![k] = ad], e, Tagged(cs, k), msg)
        EdStart(ad) ==
            [ad EXCEPT
               !.event_dispatchers[SortedStrs(DOMAIN ad.event_dispatchers)[1]].started =
                   ed_start_ok]
        Sl4a(g) ==
            IF g.exc # ""
            THEN Up(g.ad, g.exc, <<"start_adb_logcat", "get_droid">>, "sl4a")
            ELSE IF Ed(g.ad) = NoEd
            THEN Up(g.ad, "AttributeError", <<"start_adb_logcat", "get_droid">>, "sl4a")
            ELSE Up(EdStart(g.ad), "",
                    <<"start_adb_logcat", "get_droid", "ed.start">>, "")
        Logcat(lc) ==
            IF lc.exc # ""
            THEN Up(lc.ad, lc.exc, <<"start_adb_logcat">>, "logcat")
            ELSE IF lc.ad.skip_sl4a
            THEN Up(lc.ad, "", <<"start_adb_logcat">>, "")
            ELSE Sl4a(GetDroid(lc.ad, BusyPorts(devs), gd))
    IN  Logcat(StartAdbLogcat(devs[k], started))

\* lines 88-99 of create for ad = devs[k], up to the first failure: exc is
\* the exception caught by the bare except ("" if the device came up), msg
\* tells which of the two handlers caught it
BringUp(devs, k, started, gd, ed_start_ok) ==
    LET Up(ad, e, cs, msg) == Brought([devs EXCEPT ![k] = ad], e, Tagged(cs, k), msg)
        EdStart(ad) ==
            [ad EXCEPT
               !.event_dispatchers[SortedStrs(DOMAIN ad.event_dispatchers)[1]].started = TRUE]
        Sl4a(g) ==
            IF g.exc # ""
            THEN Up(g.ad, g.exc, <<"start_adb_logcat", "get_droid">>, "sl4a")
            ELSE IF Ed(g.ad) = NoEd
            THEN Up(g.ad, "AttributeError", <<"start_adb_logcat", "get_droid">>, "sl4a")
            ELSE IF ~ed_start_ok
            THEN Up(g.ad, "StartError",
                    <<"start_adb_logcat", "get_droid", "ed.start">>, "sl4a")
            ELSE Up(EdStart(g.ad), "",
                    <<"start_adb_logcat", "get_droid", "ed.start">>, "")
        Logcat(lc) ==
            IF lc.exc # ""
            THEN Up(lc.ad, lc.exc, <<"start_adb_logcat">>, "logcat")
            ELSE IF lc.ad.skip_sl4a
            THEN Up(lc.ad, "", <<"start_adb_logcat">>, "")
            ELSE Sl4a(GetDroid(lc.ad, BusyPorts(devs), gd))
    IN  Logcat(StartAdbLogcat(devs[k], started))

(***************************************************************************)
(* SpecCreate: create() on a configuration, one loop iteration a step, and *)
(* destroy() of what it returned.                                          *)
(***************************************************************************)
InitCreate ==
    /\ ads = <<>>
    /\ configs \in ConfigSpace
    /\ attached \in AttachedSets
    /\ pc = "idle"
    /\ active_ads = <<>>
    /\ last = [op |-> "init", arg |-> 0]
    /\ exc = ""
    /\ ret = [droid |-> NoDroid, ed |-> NoEd]
    /\ calls = <<>>
    /\ fastboot_devices = {}
    /\ has_adb_log = FALSE
    /\ boot = NoBoot
    /\ cat = NoCat
    /\ parse = NoParse
    /\ tasks = NoTasks
    /\ load = NoLoad
    /\ get = NoGet
    /\ name = NoName

\* lines 51-70 of create: build the devices and check that they are attached
CreateBegin ==
    /\ pc = "idle"
    /\ LET c == CreateInstances(configs, attached)
           e == IF c.exc # "" THEN c.exc
                ELSE IF ~AllAttached(c.ads, attached) THEN "DoesNotExistError"
                ELSE ""
       IN  /\ configs' = [configs EXCEPT !.items = c.cfgs]
           /\ ads' = c.ads
           /\ exc' = e
           /\ pc' = IF e = "" THEN "loop" ELSE "raised"
    /\ last' = [op |-> "create", arg |-> 0]
    /\ active_ads' = <<>>
    /\ calls' = <<>>
    /\ UNCHANGED <<attached, fastboot_devices, ret, locals>>

\* the outcomes of destroy(active_ads) that differ
DestroyOutcomes(devs, n) ==
    {outs \in [1..n -> Outcomes] :
        \A i \in 1..n : DOMAIN devs[i].droid_sessions = {} => outs[i] = "ok"}

\* the bring-ups of devs[k] that differ
BringUps(devs, k) ==
    {BringUp(devs, k, FALSE, CHOOSE g \in GetDroidInputs(devs[k], {TRUE}) : TRUE, TRUE)}
      \cup {BringUp(devs, k, TRUE, gd, ed_start_ok) :
              gd \in {g \in GetDroidInputs(devs[k], {TRUE}) : Canonical(devs[k], g)},
              ed_start_ok \in BOOLEAN}

\* lines 87-104 of create: one iteration of the bring-up loop
CreateStep ==
    /\ pc = "loop"
    /\ Len(active_ads) < Len(ads)
    /\ Ports \ BusyPorts(ads) # {}
    /\ LET k == Len(active_ads) + 1
       IN  \E b \in BringUps(ads, k) :
             /\ \A i \in DOMAIN b.ads : Bounded(b.ads[i])
             /\ IF b.exc = ""
                THEN /\ ads' = [b.ads EXCEPT ![k] = Settle(@)]
                     /\ active_ads' = Append(active_ads, k)
                     /\ calls' = calls \o b.calls
                     /\ UNCHANGED <<pc, exc>>
                ELSE \E clean_up_ok \in (IF Ed(b.ads[k]) = NoEd THEN {TRUE} ELSE BOOLEAN),
                        outs \in DestroyOutcomes(ads, Len(active_ads)) :
                       \E c \in {Cleanup(b.ads, k, b.msg, active_ads, clean_up_ok, outs)} :
                           /\ ads' = c.ads
                           /\ calls' = calls \o b.calls \o c.calls
                           /\ exc' = c.exc
                           /\ pc' = "raised"
                           /\ UNCHANGED active_ads
    /\ UNCHANGED <<configs, attached, fastboot_devices, last, ret, locals>>

\* line 105 of create: return ads
CreateReturn ==
    /\ pc = "loop"
    /\ Len(active_ads) = Len(ads)
    /\ pc' = "returned"
    /\ UNCHANGED <<ads, configs, attached, fastboot_devices, active_ads, last, exc, ret, calls,
                   locals>>

\* destroy(ads) on the list create() returned
DoDestroy ==
    /\ pc = "returned"
    /\ \E outs \in DestroyOutcomes(ads, Len(ads)) :
         \E d \in {Destroy(ads, [i \in 1..Len(ads) |-> i], outs)} :
             /\ ads' = d.ads
             /\ calls' = d.calls
             /\ exc' = d.exc
    /\ pc' = "destroyed"
    /\ last' = [op |-> "destroy", arg |-> 0]
    /\ UNCHANGED <<configs, attached, fastboot_devices, active_ads, ret, locals>>

NextCreate == CreateBegin \/ CreateStep \/ CreateReturn \/ DoDestroy

SpecCreate == InitCreate /\ [][NextCreate]_vars

(***************************************************************************)
(* reboot, in three steps: down to the channel-level reboot, the           *)
(* boot-completion wait, and up from the return of the wait.  The inputs   *)
(* of the first step are                                                   *)
(*   bootloader: what is_bootloader answers;                               *)
(*   outs: session id -> outcome of its termination;                       *)
(* of the second the answer of the last poll of the wait, and of the third *)
(*   booted: wait_for_boot_completion returns (FALSE: it timed out);       *)
(*   gd: the input of get_droid; ed_start_ok: ed.start() returns;          *)
(*   started: the outcome of start_adb_logcat's external steps.            *)
(***************************************************************************)
\* lines 809-813 of reboot issuing the channel-level reboot first
RebootDown_RebootsFirst(ad, outs) ==
    LET Rebooted(t, cs) ==
            Result(t.ad, "", NoDroid, NoEd,
                   <<"adb.reboot">> \o cs \o <<"terminate_all_sessions">>)
    IN  IF IsAdbLogcatOn(ad)
        THEN Rebooted(TerminateAllSessions(StopAdbLogcat(ad).ad, outs), <<"stop_adb_logcat">>)
        ELSE Rebooted(TerminateAllSessions(ad, outs), <<>>)

\* lines 809-813 of reboot: stop the log collector, terminate the sessions,
\* reboot
RebootDown(ad, outs) ==
    LET Rebooted(t, cs) ==
            Result(t.ad, "", NoDroid, NoEd,
                   cs \o <<"terminate_all_sessions", "adb.reboot">>)
    IN  IF IsAdbLogcatOn(ad)
        THEN Rebooted(TerminateAllSessions(StopAdbLogcat(ad).ad, outs), <<"stop_adb_logcat">>)
        ELSE Rebooted(TerminateAllSessions(ad, outs), <<>>)

\* lines 806-813 of reboot without the is_bootloader check
RebootBegin_NoBootloaderCheck(ad, in) == RebootDown(ad, in.outs)

\* lines 806-813 of reboot
RebootBegin(ad, in) ==
    IF in.bootloader
    THEN Result(ad, "", NoDroid, NoEd, <<"fastboot.reboot">>)
    ELSE RebootDown(ad, in.outs)

\* lines 815-820 of reboot: root, open the session, start its dispatcher,
\* restart the log collector if has_log
RebootUp(ad, has_log, in) ==
    LET cs == <<"root_adb", "get_droid">>
        Logged(lc, droid, ed, c) ==
            IF lc.exc # "" THEN Result(lc.ad, lc.exc, NoDroid, NoEd, c)
            ELSE Result(lc.ad, "", droid, ed, c)
        EdStarted(a, g) ==
            IF has_log
            THEN Logged(StartAdbLogcat(a, in.started), g.droid,
                        [g.ed EXCEPT !.started = TRUE],
                        cs \o <<"ed.start", "start_adb_logcat">>)
            ELSE Result(a, "", g.droid, [g.ed EXCEPT !.started = TRUE],
                        cs \o <<"ed.start">>)
        Opened(g) ==
            IF g.exc # "" THEN Result(g.ad, g.exc, NoDroid, NoEd, cs)
            ELSE IF ~in.ed_start_ok
            THEN Result(g.ad, "StartError", NoDroid, NoEd, cs \o <<"ed.start">>)
            ELSE EdStarted([g.ad EXCEPT
                              !.event_dispatchers[EdKey(g.ad, g.droid.uid)].started = TRUE],
                           g)
    IN  Opened(GetDroid(ad, ad.forwards, in.gd))

\* lines 814-820 of reboot going on after wait_for_boot_completion raised
RebootEnd_IgnoresBootFailure(ad, has_log, in) == RebootUp(ad, has_log, in)

\* lines 814-820 of reboot restarting the log collector in every case
RebootEnd_AlwaysRestartsLogcat(ad, has_log, in) ==
    IF ~in.booted
    THEN Result(ad, "AndroidDeviceError", NoDroid, NoEd, <<>>)
    ELSE RebootUp(ad, TRUE, in)

\* lines 814-820 of reboot
RebootEnd(ad, has_log, in) ==
    IF ~in.booted
    THEN Result(ad, "AndroidDeviceError", NoDroid, NoEd, <<>>)
    ELSE RebootUp(ad, has_log, in)

\* the outcomes of the terminations of ad's sessions that differ
TerminationOutcomes(ad) ==
    {outs \in [DOMAIN ad.droid_sessions -> Outcomes] :
        \A u \in DOMAIN ad.droid_sessions :
            outs[u] = "clean_up_raises" => EdKey(ad, u) \in DOMAIN ad.event_dispatchers}

\* AndroidDevice.is_bootloader, given what list_fastboot_devices() returns
IsBootloader(ad, fastboot) == ad.serial \in fastboot

\* the inputs of the first step of reboot that differ in the state of ad
RebootBeginInputs(ad, fastboot) ==
    IF IsBootloader(ad, fastboot)
    THEN {[bootloader |-> TRUE, outs |-> [u \in DOMAIN ad.droid_sessions |-> "ok"]]}
    ELSE {[bootloader |-> FALSE, outs |-> outs] : outs \in TerminationOutcomes(ad)}

\* the inputs of the last step of reboot that differ in the state of ad
RebootEndInputs(ad, has_log, booted) ==
    LET In(b, gd, e, st) ==
            [booted |-> b, gd |-> gd, ed_start_ok |-> e, started |-> st]
        Up(gd) ==
            IF GetDroid(ad, ad.forwards, gd).exc # ""
            THEN {In(TRUE, gd, TRUE, TRUE)}
            ELSE {In(TRUE, gd, FALSE, TRUE)}
                   \cup {In(TRUE, gd, TRUE, st) :
                           st \in (IF has_log THEN BOOLEAN ELSE {TRUE})}
    IN  IF ~booted
        THEN {In(FALSE, CHOOSE g \in GetDroidInputs(ad, {TRUE}) : TRUE, TRUE, TRUE)}
        ELSE IF Ports \ ad.forwards = {} THEN {}
        ELSE UNION {Up(gd) : gd \in {g \in GetDroidInputs(ad, {TRUE}) :
                                       Canonical(ad, g)}}

(***************************************************************************)
(* SpecDevice: the life of one device: create() of a one-device batch, the *)
(* calls a test makes on the device, reboot() and destroy().               *)
(***************************************************************************)
\* the names of the calls of a batch-level result
Names(cs) == [j \in 1..Len(cs) |-> cs[j][1]]

\* create([serial]) on the device just constructed
DevCreate ==
    /\ last.op = "init"
    /\ \E b \in BringUps(ads, 1) :
         /\ Bounded(b.ads[1])
         /\ IF b.exc = ""
            THEN /\ ads' = [b.ads EXCEPT ![1] = Settle(@)]
                 /\ exc' = ""
                 /\ calls' = Names(b.calls)
            ELSE \E clean_up_ok \in (IF Ed(b.ads[1]) = NoEd THEN {TRUE} ELSE BOOLEAN) :
                   \E c \in {Cleanup(b.ads, 1, b.msg, <<>>, clean_up_ok, <<>>)} :
                       /\ ads' = c.ads
                       /\ exc' = c.exc
                       /\ calls' = Names(b.calls \o c.calls)
    /\ last' = [op |-> "create", arg |-> 0]
    /\ ret' = [droid |-> NoDroid, ed |-> NoEd]
    /\ UNCHANGED <<configs, attached, fastboot_devices, pc, active_ads, locals>>

\* the effect of a call on device 1 whose result the test does not keep
Did(op, arg, r) ==
    Called(op, arg, Result(r.ad, r.exc, NoDroid, NoEd, <<>>))

DevStartAdbLogcat ==
    \E started \in BOOLEAN :
        Called("start_adb_logcat", 0, StartAdbLogcat(ads[1], started))

DevStopAdbLogcat ==
    Called("stop_adb_logcat", 0, StopAdbLogcat(ads[1]))

DevGetDroid ==
    \E in \in GetDroidInputs(ads[1], BOOLEAN) :
        /\ Canonical(ads[1], in)
        /\ Ports \ BusyPorts(ads) # {}
        /\ Did("get_droid", 0, GetDroid(ads[1], BusyPorts(ads), in))

DevTerminateSession ==
    \E sid \in Uids, out \in Outcomes :
        Did("terminate_session", sid, TerminateSession(ads[1], sid, out))

DevTerminateAllSessions ==
    \E outs \in TerminationOutcomes(ads[1]) :
        Did("terminate_all_sessions", 0, TerminateAllSessions(ads[1], outs))

\* the device is put in bootloader mode (outside this module); last records
\* it as "bootloader"
DevEnterBootloader ==
    /\ ads[1].serial \notin fastboot_devices
    /\ fastboot_devices' = fastboot_devices \cup {ads[1].serial}
    /\ last' = [op |-> "bootloader", arg |-> 0]
    /\ exc' = ""
    /\ ret' = [droid |-> NoDroid, ed |-> NoEd]
    /\ calls' = <<>>
    /\ UNCHANGED <<ads, configs, attached, pc, active_ads, locals>>

\* reboot() up to the channel-level reboot, or the whole of it for a device
\* in bootloader mode, which the bootloader-level reboot takes out of it
DevRebootBegin ==
    /\ pc = "idle"
    /\ \E in \in RebootBeginInputs(ads[1], fastboot_devices) :
         \E r \in {RebootBegin(ads[1], in)} :
             /\ ads' = [ads EXCEPT ![1] = Settle(r.ad)]
             /\ calls' = r.calls
             /\ exc' = r.exc
             /\ pc' = IF in.bootloader THEN "idle" ELSE "reboot"
             /\ has_adb_log' = (~in.bootloader /\ IsAdbLogcatOn(ads[1]))
    /\ fastboot_devices' = fastboot_devices \ {ads[1].serial}
    /\ last' = [op |-> "reboot", arg |-> 0]
    /\ ret' = [droid |-> NoDroid, ed |-> NoEd]
    /\ UNCHANGED <<configs, attached, active_ads, boot, others>>

\* the answers of the last poll of wait_for_boot_completion: "1" when it
\* returns, another one when it has timed out
LastAnswers == {"0", "1"}

\* line 814 of reboot: wait_for_boot_completion up to its last poll
DevRebootWait ==
    /\ pc = "reboot"
    /\ \E c \in LastAnswers : boot' = [NoBoot EXCEPT !.completed = c]
    /\ calls' = calls \o <<"wait_for_boot_completion">>
    /\ pc' = "boot"
    /\ UNCHANGED <<ads, configs, attached, fastboot_devices, active_ads, last, exc, ret,
                   has_adb_log, others>>

\* reboot() from the end of the boot-completion wait to its own end
DevRebootEnd ==
    /\ pc = "boot"
    /\ \E in \in RebootEndInputs(ads[1], has_adb_log, boot.completed = "1") :
         \E r \in {RebootEnd(ads[1], has_adb_log, in)} :
             /\ Bounded(r.ad)
             /\ ads' = [ads EXCEPT ![1] = Settle(r.ad)]
             /\ calls' = calls \o r.calls
             /\ exc' = r.exc
             /\ ret' = [droid |-> r.droid, ed |-> r.ed]
    /\ pc' = "idle"
    /\ has_adb_log' = FALSE
    /\ boot' = NoBoot
    /\ UNCHANGED <<configs, attached, fastboot_devices, active_ads, last, others>>

\* destroy([ad])
DevDestroy ==
    /\ \E outs \in DestroyOutcomes(ads, 1) :
         \E d \in {Destroy(ads, <<1>>, outs)} :
             /\ ads' = d.ads
             /\ calls' = Names(d.calls)
             /\ exc' = d.exc
    /\ last' = [op |-> "destroy", arg |-> 0]
    /\ ret' = [droid |-> NoDroid, ed |-> NoEd]
    /\ UNCHANGED <<configs, attached, fastboot_devices, pc, active_ads, locals>>

\* reboot() is a blocking call: nothing else is called on the device until
\* it has ended
NextDevice ==
    \/ pc = "idle" /\ DevCreate
    \/ pc = "idle" /\ DevStartAdbLogcat
    \/ pc = "idle" /\ DevStopAdbLogcat
    \/ pc = "idle" /\ DevGetDroid
    \/ pc = "idle" /\ DevTerminateSession
    \/ pc = "idle" /\ DevTerminateAllSessions
    \/ pc = "idle" /\ DevDestroy
    \/ pc = "idle" /\ DevEnterBootloader
    \/ DevRebootBegin
    \/ DevRebootWait
    \/ DevRebootEnd

SpecDevice == Init /\ [][NextDevice]_vars

(***************************************************************************)
(* SpecBoot: wait_for_boot_completion, statement by statement, with the    *)
(* clock time.time() reads.  How long adb.wait_for_device() and each adb   *)
(* shell call take, and what each poll answers, are inputs; time.sleep(5)  *)
(* takes 5.  pc: "entry" (line 767), "while" (line 771), "shell" (line     *)
(* 773), "sleep" (line 781), "returned" (line 776), "raised" (line 782).   *)
(***************************************************************************)
\* line 768: timeout = 15 * 60
Timeout == 15 * 60
\* line 781: time.sleep(5)
PollInterval == 5

\* time.time() when the method is entered
StartTimes == {0, MaxShellTime}
\* how long adb.wait_for_device() blocks
WaitTimes == {0, MaxShellTime, Timeout}
\* how long one adb shell call takes
ShellTimes == {0, MaxShellTime}
\* what a poll answers: the stripped output, or "AdbError" when it raises
PollAnswers == {"0", "1", "AdbError"}

\* lines 773-780 returning on every answer of the shell call
Polled_ReturnsOnAnyAnswer(b, answer, d) ==
    [boot |-> [b EXCEPT !.now = @ + d, !.polls = @ + 1, !.completed = answer],
     pc |-> IF answer = "AdbError" THEN "sleep" ELSE "returned"]

\* lines 773-780 without the except clause: AdbError leaves the method
Polled_AdbErrorPropagates(b, answer, d) ==
    [boot |-> [b EXCEPT !.now = @ + d, !.polls = @ + 1, !.completed = answer],
     pc |-> IF answer = "1" THEN "returned"
            ELSE IF answer = "AdbError" THEN "raised" ELSE "sleep"]

\* lines 773-780: one poll that takes d and gives answer; the method returns
\* on "1" and goes on to sleep on any other answer and on AdbError
Polled(b, answer, d) ==
    [boot |-> [b EXCEPT !.now = @ + d, !.polls = @ + 1, !.completed = answer],
     pc |-> IF answer = "1" THEN "returned" ELSE "sleep"]

InitBoot ==
    /\ ads = <<NewAndroidDevice(<<65>>, FALSE)>>
    /\ configs = <<>>
    /\ attached = {<<65>>}
    /\ fastboot_devices = {}
    /\ pc = "entry"
    /\ active_ads = <<>>
    /\ last = [op |-> "wait_for_boot_completion", arg |-> 0]
    /\ exc = ""
    /\ ret = [droid |-> NoDroid, ed |-> NoEd]
    /\ calls = <<>>
    /\ has_adb_log = FALSE
    /\ \E t \in StartTimes : boot = [NoBoot EXCEPT !.now = t]
    /\ cat = NoCat
    /\ parse = NoParse
    /\ tasks = NoTasks
    /\ load = NoLoad
    /\ get = NoGet
    /\ name = NoName

\* what wait_for_boot_completion leaves alone
BootUnchanged ==
    UNCHANGED <<ads, configs, attached, fastboot_devices, active_ads, last, ret, has_adb_log,
                others>>

\* lines 767-770: note the time of entry, block until adb sees the device
BootWaitForDevice ==
    /\ pc = "entry"
    /\ \E d \in WaitTimes :
           boot' = [boot EXCEPT !.timeout_start = boot.now, !.now = @ + d]
    /\ calls' = <<"adb.wait_for_device">>
    /\ pc' = "while"
    /\ exc' = ""
    /\ BootUnchanged

\* line 771 measuring the ceiling from the epoch, not from the entry
BootWhile_CeilingNotFromEntry ==
    /\ pc = "while"
    /\ IF boot.now < Timeout
       THEN pc' = "shell" /\ exc' = ""
       ELSE pc' = "raised" /\ exc' = "AndroidDeviceError"
    /\ UNCHANGED <<boot, calls>>
    /\ BootUnchanged

\* line 771, and line 782 when the test fails
BootWhile ==
    /\ pc = "while"
    /\ IF boot.now < boot.timeout_start + Timeout
       THEN pc' = "shell" /\ exc' = ""
       ELSE pc' = "raised" /\ exc' = "AndroidDeviceError"
    /\ UNCHANGED <<boot, calls>>
    /\ BootUnchanged

\* lines 772-780: one poll
BootShell ==
    /\ pc = "shell"
    /\ \E answer \in PollAnswers, d \in ShellTimes :
         \E r \in {Polled(boot, answer, d)} :
             /\ boot' = r.boot
             /\ pc' = r.pc
    /\ UNCHANGED <<exc, calls>>
    /\ BootUnchanged

\* line 781
BootSleep ==
    /\ pc = "sleep"
    /\ boot' = [boot EXCEPT !.now = @ + PollInterval, !.slept = @ + PollInterval]
    /\ pc' = "while"
    /\ UNCHANGED <<exc, calls>>
    /\ BootUnchanged

NextBoot == BootWaitForDevice \/ BootWhile \/ BootShell \/ BootSleep

SpecBoot == InitBoot /\ [][NextBoot]_vars

\* the method is a sequential loop that nothing suspends: a statement that
\* can run does run
SpecBootLive == SpecBoot /\ WF_vars(NextBoot)

(***************************************************************************)
(* SpecCat: cat_adb_log, one pass of its scanning loop per step.  A log    *)
(* line is [valid, time]: whether its prefix is a log-line timestamp, and  *)
(* the time it denotes; a line is known by its number in the file.  The    *)
(* module acts.logger is outside the sources: timestamps are numbers that  *)
(* its comparator orders as time does.  pc: "entry" (line 542),            *)
(* "readline" (line 561), "done", "raised" (line 543).                     *)
(***************************************************************************)
\* acts.logger.is_valid_logline_timestamp of the prefix of line
IsValidLoglineTimestamp(line) == line.valid

\* acts.logger.logline_timestamp_comparator(t1, t2)
LoglineTimestampComparator(t1, t2) ==
    IF t1 < t2 THEN -1 ELSE IF t1 = t2 THEN 0 ELSE 1

\* _is_timestamp_in_range with an exclusive end
IsTimestampInRange_EndExclusive(target, begin_time, end_time) ==
    /\ LoglineTimestampComparator(begin_time, target) <= 0
    /\ LoglineTimestampComparator(end_time, target) > 0

\* _is_timestamp_in_range
IsTimestampInRange(target, begin_time, end_time) ==
    /\ LoglineTimestampComparator(begin_time, target) <= 0
    /\ LoglineTimestampComparator(end_time, target) >= 0

\* lines 559-577 with an unparseable line treated as an out-of-range one
ReadLine_InvalidIsOutOfRange(c) ==
    IF c.pos = Len(c.log) THEN [cat |-> c, pc |-> "done"]
    ELSE LET n == c.pos + 1
             line == c.log[n]
         IN  IF /\ IsValidLoglineTimestamp(line)
                /\ IsTimestampInRange(line.time, c.begin_time, c.end_time)
             THEN [cat |-> [c EXCEPT !.pos = n, !.in_range = TRUE, !.out = Append(@, n)],
                   pc |-> "readline"]
             ELSE [cat |-> [c EXCEPT !.pos = n],
                   pc |-> IF c.in_range THEN "done" ELSE "readline"]

\* lines 559-577: one pass of the loop `while True`
ReadLine(c) ==
    IF c.pos = Len(c.log) THEN [cat |-> c, pc |-> "done"]
    ELSE LET n == c.pos + 1
             line == c.log[n]
         IN  IF ~IsValidLoglineTimestamp(line)
             THEN [cat |-> [c EXCEPT !.pos = n], pc |-> "readline"]
             ELSE IF IsTimestampInRange(line.time, c.begin_time, c.end_time)
             THEN [cat |-> [c EXCEPT !.pos = n, !.in_range = TRUE, !.out = Append(@, n)],
                   pc |-> "readline"]
             ELSE [cat |-> [c EXCEPT !.pos = n],
                   pc |-> IF c.in_range THEN "done" ELSE "readline"]

\* the log files, begin_time arguments and current times (end_time)
CatInputs ==
    LET Times == 1..MaxTime
        Lines == [valid : {TRUE}, time : Times] \cup [valid : {FALSE}, time : {None}]
        Logs == UNION {[1..n -> Lines] : n \in 0..MaxLines}
    IN  [log : Logs, begin_time : Times, end_time : Times]

\* a device that never collected a log, or one whose collector runs
InitCat ==
    /\ \E before \in {"init", "start_adb_logcat", "stop_adb_logcat"} :
           /\ last = [op |-> before, arg |-> 0]
           /\ ads = <<CASE before = "init" -> NewAndroidDevice(<<65>>, FALSE)
                       [] before = "start_adb_logcat" ->
                            StartAdbLogcat(NewAndroidDevice(<<65>>, FALSE), TRUE).ad
                       [] before = "stop_adb_logcat" ->
                            StopAdbLogcat(
                                StartAdbLogcat(NewAndroidDevice(<<65>>, FALSE), TRUE).ad).ad>>
    /\ configs = <<>>
    /\ attached = {<<65>>}
    /\ fastboot_devices = {}
    /\ pc = "entry"
    /\ active_ads = <<>>
    /\ exc = ""
    /\ ret = [droid |-> NoDroid, ed |-> NoEd]
    /\ calls = <<>>
    /\ has_adb_log = FALSE
    /\ boot = NoBoot
    /\ \E in \in CatInputs :
           cat = [NoCat EXCEPT !.log = in.log, !.begin_time = in.begin_time,
                               !.end_time = in.end_time]
    /\ parse = NoParse
    /\ tasks = NoTasks
    /\ load = NoLoad
    /\ get = NoGet
    /\ name = NoName

\* lines 542-557: refuse when no log was collected, else open the excerpt
\* and the log
CatBegin ==
    /\ pc = "entry"
    /\ IF ads[1].adb_logcat_file_path = <<>>
       THEN pc' = "raised" /\ exc' = "AndroidDeviceError" /\ calls' = <<>>
       ELSE pc' = "readline" /\ exc' = "" /\ calls' = <<"create_dir", "open", "open">>
    /\ UNCHANGED <<ads, configs, attached, fastboot_devices, active_ads, last, ret, locals>>

\* lines 558-577: one pass of the scanning loop
CatReadLine ==
    /\ pc = "readline"
    /\ \E r \in {ReadLine(cat)} :
           /\ cat' = r.cat
           /\ pc' = r.pc
    /\ UNCHANGED <<ads, configs, attached, fastboot_devices, active_ads, last, exc, ret, calls,
                   has_adb_log, boot, parse, tasks, load, get, name>>

NextCat == CatBegin \/ CatReadLine

SpecCat == InitCat /\ [][NextCat]_vars

(***************************************************************************)
(* SpecParse: _parse_device_list on every text of up to MaxText characters *)
(* over a serial character, the marker's character, tab, newline and       *)
(* space.  The text is the decoded device_list_str.                        *)
(***************************************************************************)
\* the characters str.strip() removes, among those of the texts
Whitespace == {9, 10, 32}

\* str.strip()
Strip(s) ==
    LET keep == {i \in 1..Len(s) : s[i] \notin Whitespace}
    IN  IF keep = {} THEN <<>>
        ELSE SubSeq(s, CHOOSE i \in keep : \A j \in keep : i <= j,
                       CHOOSE i \in keep : \A j \in keep : i >= j)

\* str.split(sep) for a separator of one character
Split(s, sep) ==
    LET cuts == <<0>> \o SortedInts({i \in 1..Len(s) : s[i] = sep}) \o <<Len(s) + 1>>
    IN  [k \in 1..(Len(cuts) - 1) |-> SubSeq(s, cuts[k] + 1, cuts[k + 1] - 1)]

\* _parse_device_list taking every line of two or more columns
ParseDeviceList_AnyColumnCount(device_list_str, key) ==
    LET Tokens(line) == Split(Strip(line), 9)
        clean_lines == Split(Strip(device_list_str), 10)
        matching == SelectSeq(clean_lines,
                              LAMBDA line : /\ Len(Tokens(line)) >= 2
                                            /\ Tokens(line)[2] = key)
    IN  [k \in 1..Len(matching) |-> Tokens(matching[k])[1]]

\* _parse_device_list(device_list_str, key)
ParseDeviceList(device_list_str, key) ==
    LET Tokens(line) == Split(Strip(line), 9)
        clean_lines == Split(Strip(device_list_str), 10)
        matching == SelectSeq(clean_lines,
                              LAMBDA line : /\ Len(Tokens(line)) = 2
                                            /\ Tokens(line)[2] = key)
    IN  [k \in 1..Len(matching) |-> Tokens(matching[k])[1]]

\* the texts and the markers
ParseInputs ==
    [device_list_str : UNION {[1..n -> {65, 100} \cup Whitespace] : n \in 0..MaxText},
     key : {<<100>>}]

InitParse ==
    /\ ads = <<NewAndroidDevice(<<65>>, FALSE)>>
    /\ configs = <<>>
    /\ attached = {<<65>>}
    /\ fastboot_devices = {}
    /\ pc = "entry"
    /\ active_ads = <<>>
    /\ last = [op |-> "_parse_device_list", arg |-> 0]
    /\ exc = ""
    /\ ret = [droid |-> NoDroid, ed |-> NoEd]
    /\ calls = <<>>
    /\ has_adb_log = FALSE
    /\ boot = NoBoot
    /\ cat = NoCat
    /\ \E in \in ParseInputs :
           parse = [NoParse EXCEPT !.device_list_str = in.device_list_str, !.key = in.key]
    /\ tasks = NoTasks
    /\ load = NoLoad
    /\ get = NoGet
    /\ name = NoName

\* _parse_device_list(device_list_str, key)
DoParseDeviceList ==
    /\ pc = "entry"
    /\ parse' = [parse EXCEPT !.results = ParseDeviceList(parse.device_list_str, parse.key)]
    /\ pc' = "returned"
    /\ UNCHANGED <<ads, configs, attached, fastboot_devices, active_ads, last, exc, ret, calls,
                   has_adb_log, boot, cat, tasks, load, get, name>>

SpecParse == InitParse /\ [][DoParseDeviceList]_vars

(***************************************************************************)
(* load_config(config) on the attributes of one device.                    *)
(***************************************************************************)
\* the properties whose getters run adb shell: is_adb_root (lines 354-358)
\* and model (lines 360-383)
AdbProperties == {"is_adb_root", "model"}

\* hasattr(self, k), line 450: "yes", "no", or the exception the getter of a
\* property raised; hasattr answers False for AttributeError only
HasAttr(attrs, k, adb_ok) ==
    IF k \in DOMAIN attrs \cup ExistingAttributes THEN "yes"
    ELSE IF k \in AdbProperties THEN (IF adb_ok THEN "yes" ELSE "AdbError")
    ELSE "no"

RECURSIVE LoadConfigItems(_, _, _, _)
\* the loop of lines 449-454 from item i of the config: [attrs, exc]
LoadConfigItems(attrs, config, i, adb_ok) ==
    IF i > Len(config) THEN [attrs |-> attrs, exc |-> ""]
    ELSE IF HasAttr(attrs, config[i][1], adb_ok) = "yes"
    THEN [attrs |-> attrs, exc |-> "AndroidDeviceError"]
    ELSE IF HasAttr(attrs, config[i][1], adb_ok) = "no"
    THEN LoadConfigItems([k \in DOMAIN attrs \cup {config[i][1]} |->
                             IF k = config[i][1] THEN config[i][2] ELSE attrs[k]],
                         config, i + 1, adb_ok)
    ELSE [attrs |-> attrs, exc |-> HasAttr(attrs, config[i][1], adb_ok)]

InitLoad ==
    /\ ads = <<NewAndroidDevice(<<65>>, FALSE)>>
    /\ configs = <<>>
    /\ attached = {<<65>>}
    /\ fastboot_devices = {}
    /\ pc = "entry"
    /\ active_ads = <<>>
    /\ last = [op |-> "load_config", arg |-> 0]
    /\ exc = ""
    /\ ret = [droid |-> NoDroid, ed |-> NoEd]
    /\ calls = <<>>
    /\ has_adb_log = FALSE
    /\ boot = NoBoot
    /\ cat = NoCat
    /\ parse = NoParse
    /\ tasks = NoTasks
    /\ \E n \in 0..MaxKeys, adb_ok \in BOOLEAN :
       \E keys \in [1..n -> {"serial", "droid", "model", "skip_sl4a", "label"}] :
       \E values \in [1..n -> {1, 2}] :
           /\ \A i, j \in 1..n : keys[i] = keys[j] => i = j
           /\ load = [NoLoad EXCEPT !.config = [i \in 1..n |-> <<keys[i], values[i]>>],
                                    !.adb_ok = adb_ok]
    /\ get = NoGet
    /\ name = NoName

\* load_config(config)
DoLoadConfig ==
    /\ pc = "entry"
    /\ \E r \in {LoadConfigItems(load.attrs, load.config, 1, load.adb_ok)} :
           /\ load' = [load EXCEPT !.attrs = r.attrs]
           /\ exc' = r.exc
           /\ pc' = IF r.exc = "" THEN "returned" ELSE "raised"
    /\ UNCHANGED <<ads, configs, attached, fastboot_devices, active_ads, last, ret, calls,
                   has_adb_log, boot, cat, parse, tasks, get, name>>

SpecLoad == InitLoad /\ [][DoLoadConfig]_vars

(***************************************************************************)
(* get_device(ads, **kwargs).  A device of the list is [attrs, model,      *)
(* adb_ok]: attrs its instance attributes that load_config added, model    *)
(* what the getter of the property `model` answers, adb_ok whether adb     *)
(* shell answers for this device (or raises AdbError).                     *)
(***************************************************************************)
\* getattr(ad, k) of an attribute hasattr found
GetAttr(ad, k) == IF k \in DOMAIN ad.attrs THEN ad.attrs[k] ELSE ad.model

RECURSIVE GetDeviceFilter(_, _, _)
\* _get_device_filter(ad), lines 255-261, from condition i on: "yes", "no",
\* or the exception a getter raised
GetDeviceFilter(ad, kwargs, i) ==
    IF i > Len(kwargs) THEN "yes"
    ELSE IF HasAttr(ad.attrs, kwargs[i][1], ad.adb_ok) = "no" THEN "no"
    ELSE IF HasAttr(ad.attrs, kwargs[i][1], ad.adb_ok) # "yes"
    THEN HasAttr(ad.attrs, kwargs[i][1], ad.adb_ok)
    ELSE IF GetAttr(ad, kwargs[i][1]) # kwargs[i][2] THEN "no"
    ELSE GetDeviceFilter(ad, kwargs, i + 1)

RECURSIVE FilterDevices(_, _, _, _)
\* filter_devices(ads, func), lines 217-233, from position i on with the
\* positions `results` kept so far: [results, exc]
FilterDevices(device_list, kwargs, i, results) ==
    IF i > Len(device_list) THEN [results |-> results, exc |-> ""]
    ELSE IF GetDeviceFilter(device_list[i], kwargs, 1) = "yes"
    THEN FilterDevices(device_list, kwargs, i + 1, Append(results, i))
    ELSE IF GetDeviceFilter(device_list[i], kwargs, 1) = "no"
    THEN FilterDevices(device_list, kwargs, i + 1, results)
    ELSE [results |-> results, exc |-> GetDeviceFilter(device_list[i], kwargs, 1)]

\* get_device, lines 263-273: [ret, exc]
GetDevice(device_list, kwargs) ==
    LET r(filtered) ==
            IF filtered.exc # "" THEN [ret |-> 0, exc |-> filtered.exc]
            ELSE IF filtered.results = <<>>
            THEN [ret |-> 0, exc |-> "AndroidDeviceError"]
            ELSE IF Len(filtered.results) = 1
            THEN [ret |-> filtered.results[1], exc |-> ""]
            ELSE [ret |-> 0, exc |-> "AndroidDeviceError"]
    IN  r(FilterDevices(device_list, kwargs, 1, <<>>))

InitGet ==
    /\ ads = <<NewAndroidDevice(<<65>>, FALSE)>>
    /\ configs = <<>>
    /\ attached = {<<65>>}
    /\ fastboot_devices = {}
    /\ pc = "entry"
    /\ active_ads = <<>>
    /\ last = [op |-> "get_device", arg |-> 0]
    /\ exc = ""
    /\ ret = [droid |-> NoDroid, ed |-> NoEd]
    /\ calls = <<>>
    /\ has_adb_log = FALSE
    /\ boot = NoBoot
    /\ cat = NoCat
    /\ parse = NoParse
    /\ tasks = NoTasks
    /\ load = NoLoad
    /\ name = NoName
    /\ \E n \in 0..MaxBatch, m \in 0..2 :
       \E device_list \in [1..n ->
              {[attrs |-> a, model |-> v, adb_ok |-> ok] :
                  a \in {EmptyDict} \cup {[k \in {"label"} |-> l] : l \in {1, 2}},
                  v \in {1, 2}, ok \in BOOLEAN}] :
       \E keys \in [1..m -> {"label", "model"}], values \in [1..m -> {1, 2}] :
           /\ \A i, j \in 1..m : keys[i] = keys[j] => i = j
           /\ get = [NoGet EXCEPT !.ads = device_list,
                                  !.kwargs = [i \in 1..m |-> <<keys[i], values[i]>>]]

\* get_device(ads, **kwargs)
DoGetDevice ==
    /\ pc = "entry"
    /\ \E r \in {GetDevice(get.ads, get.kwargs)} :
           /\ get' = [get EXCEPT !.ret = r.ret]
           /\ exc' = r.exc
           /\ pc' = IF r.exc = "" THEN "returned" ELSE "raised"
    /\ UNCHANGED <<ads, configs, attached, fastboot_devices, active_ads, last, ret, calls,
                   has_adb_log, boot, cat, parse, tasks, load, name>>

SpecGet == InitGet /\ [][DoGetDevice]_vars

(***************************************************************************)
(* The name cat_adb_log gives its excerpt file, lines 547-552.             *)
(***************************************************************************)
RECURSIVE Replace(_, _)
\* s.replace(old, ""): every occurrence of old, found from the left, removed
Replace(s, old) ==
    IF Len(s) < Len(old) THEN s
    ELSE IF SubSeq(s, 1, Len(old)) = old
    THEN Replace(SubSeq(s, Len(old) + 1, Len(s)), old)
    ELSE <<Head(s)>> \o Replace(Tail(s), old)

\* s[:n]: a negative n counts from the end of s
Prefix(s, n) ==
    IF n >= 0 THEN SubSeq(s, 1, IF n < Len(s) THEN n ELSE Len(s))
    ELSE SubSeq(s, 1, IF Len(s) + n > 0 THEN Len(s) + n ELSE 0)

\* ",{},{}.txt".format(begin_time, out_name) of line 549, with out_name as
\* line 548 leaves it
OutNameSuffix(begin_time, f_name) ==
    <<44>> \o begin_time \o <<44>>
        \o Replace(Replace(f_name, <<97, 100, 98, 108, 111, 103, 44>>), <<46, 116, 120, 116>>)
        \o <<46, 116, 120, 116>>

\* lines 550-552: out_name
OutName(tag, begin_time, f_name) ==
    Prefix(tag, MAX_FILENAME_LEN - Len(OutNameSuffix(begin_time, f_name)))
        \o OutNameSuffix(begin_time, f_name)

InitName ==
    /\ ads = <<NewAndroidDevice(<<65>>, FALSE)>>
    /\ configs = <<>>
    /\ attached = {<<65>>}
    /\ fastboot_devices = {}
    /\ pc = "entry"
    /\ active_ads = <<>>
    /\ last = [op |-> "cat_adb_log", arg |-> 0]
    /\ exc = ""
    /\ ret = [droid |-> NoDroid, ed |-> NoEd]
    /\ calls = <<>>
    /\ has_adb_log = FALSE
    /\ boot = NoBoot
    /\ cat = NoCat
    /\ parse = NoParse
    /\ tasks = NoTasks
    /\ load = NoLoad
    /\ get = NoGet
    /\ \E t \in 0..MaxTag, b \in 0..MaxBegin, c \in 0..MaxCore :
       \E core \in [1..c -> {65, 46}] :
           name = [NoName EXCEPT
                     !.tag = SubSeq(<<84, 85, 86, 87, 88, 89>>, 1, t),
                     !.begin_time = [i \in 1..b |-> 49],
                     !.f_name = <<97, 100, 98, 108, 111, 103, 44>> \o core
                                    \o <<46, 116, 120, 116>>]

\* lines 547-552 of cat_adb_log
DoOutName ==
    /\ pc = "entry"
    /\ name' = [name EXCEPT !.out_name = OutName(name.tag, name.begin_time, name.f_name)]
    /\ pc' = "named"
    /\ UNCHANGED <<ads, configs, attached, fastboot_devices, active_ads, last, exc, ret, calls,
                   has_adb_log, boot, cat, parse, tasks, load, get>>

SpecName == InitName /\ [][DoOutName]_vars

(***************************************************************************)
(* take_bug_reports(ads, test_name, begin_time): one take_br task per      *)
(* device, run by utils.concurrent_exec.  A task is [ad, pc, new_br, exc]: *)
(* pc is "entry", "boot" (before wait_for_boot_completion), "take" (before *)
(* the report is taken), "done" or "raised".  The tasks run interleaved,   *)
(* one call into adb per step.                                             *)
(***************************************************************************)
\* line 294 with every task given the first device of the list
TakeBugReportsArgs_FirstDeviceOnly(device_list) ==
    [i \in 1..Len(device_list) |-> device_list[1]]

\* line 294: args = [(test_name, begin_time, ad) for ad in ads]
TakeBugReportsArgs(device_list) ==
    [i \in 1..Len(device_list) |-> device_list[i]]

\* what the calls into adb answer at each position of take_bug_report
BugReportAnswers(task_pc) ==
    CASE task_pc = "entry" -> {"ok", "AdbError"}
      [] task_pc = "boot" -> {"ok", "AndroidDeviceError"}
      [] task_pc = "take" -> {"OK", "FAIL", "AdbError"}
      [] OTHER -> {}

\* take_bug_report, lines 611-644, one call into adb at a time; answers
\* whether a report was stored
TakeBugReport(t, answer) ==
    CASE t.pc = "entry" ->
           \* lines 617-630: bugreportz -v tells whether bugreportz exists
           [task |-> [t EXCEPT !.pc = "boot", !.new_br = (answer = "ok")],
            stored |-> FALSE]
      [] t.pc = "boot" ->
           \* line 632: wait_for_boot_completion
           [task |-> IF answer = "ok" THEN [t EXCEPT !.pc = "take"]
                     ELSE [t EXCEPT !.pc = "raised", !.exc = answer],
            stored |-> FALSE]
      [] t.pc = "take" ->
           \* lines 634-642
           IF t.new_br
           THEN IF answer = "OK"
                THEN [task |-> [t EXCEPT !.pc = "done"], stored |-> TRUE]
                ELSE [task |-> [t EXCEPT !.pc = "raised",
                                         !.exc = IF answer = "FAIL"
                                                 THEN "AndroidDeviceError"
                                                 ELSE answer],
                      stored |-> FALSE]
           ELSE [task |-> [t EXCEPT !.pc = "done"], stored |-> TRUE]

\* the task has returned or raised
Finished(t) == t.pc \in {"done", "raised"}

\* the device lists handed to take_bug_reports; a device may be listed twice
BugReportInputs ==
    UNION {[1..n -> 1..NumDevices] : n \in 0..MaxBatch}

InitBug ==
    /\ ads = [d \in 1..NumDevices |-> NewAndroidDevice(<<64 + d>>, FALSE)]
    /\ configs = <<>>
    /\ attached = {<<64 + d>> : d \in 1..NumDevices}
    /\ fastboot_devices = {}
    /\ pc = "entry"
    /\ active_ads = <<>>
    /\ last = [op |-> "take_bug_reports", arg |-> 0]
    /\ exc = ""
    /\ ret = [droid |-> NoDroid, ed |-> NoEd]
    /\ calls = <<>>
    /\ has_adb_log = FALSE
    /\ boot = NoBoot
    /\ cat = NoCat
    /\ parse = NoParse
    /\ \E device_list \in BugReportInputs : tasks = [NoTasks EXCEPT !.ads = device_list]
    /\ load = NoLoad
    /\ get = NoGet
    /\ name = NoName

\* what take_bug_reports leaves alone
BugUnchanged ==
    UNCHANGED <<ads, configs, attached, fastboot_devices, active_ads, last, ret, calls,
                has_adb_log, boot, cat, parse, load, get, name>>

\* lines 289-295: build the argument list and hand it to concurrent_exec,
\* which starts one task per argument tuple
BugSubmit ==
    /\ pc = "entry"
    /\ pc' = "running"
    /\ tasks' = [tasks EXCEPT !.task =
                    [i \in 1..Len(tasks.ads) |->
                        [ad |-> TakeBugReportsArgs(tasks.ads)[i], pc |-> "entry",
                         new_br |-> FALSE, exc |-> ""]]]
    /\ exc' = ""
    /\ BugUnchanged

\* one task makes its next call into adb
BugTaskStep ==
    /\ pc = "running"
    /\ \E i \in 1..Len(tasks.task) :
       \E answer \in BugReportAnswers(tasks.task[i].pc) :
       \E r \in {TakeBugReport(tasks.task[i], answer)} :
           tasks' = [tasks EXCEPT
                       !.task[i] = r.task,
                       !.users[tasks.task[i].ad] = @ \cup {i},
                       !.reports[tasks.task[i].ad] = IF r.stored THEN @ + 1 ELSE @]
    /\ UNCHANGED <<pc, exc>>
    /\ BugUnchanged

\* concurrent_exec returns once every task has finished; whether an
\* exception of a task reaches the caller is the executor's choice
BugJoin ==
    /\ pc = "running"
    /\ \A i \in 1..Len(tasks.task) : Finished(tasks.task[i])
    /\ \E e \in {""} \cup {tasks.task[i].exc : i \in 1..Len(tasks.task)} :
           /\ exc' = e
           /\ pc' = IF e = "" THEN "returned" ELSE "raised"
    /\ UNCHANGED tasks
    /\ BugUnchanged

NextBug == BugSubmit \/ BugTaskStep \/ BugJoin

SpecBug == InitBug /\ [][NextBug]_vars

(***************************************************************************)
(* Claims about create() and destroy(), checked under SpecCreate.          *)
(***************************************************************************)
Has(cs, e) == \E j \in 1..Len(cs) : cs[j] = e

\* nothing of the device is left running or registered
TornDown(ad) ==
    /\ ~IsAdbLogcatOn(ad)
    /\ ad.procs = {}
    /\ DOMAIN ad.droid_sessions = {}
    /\ DOMAIN ad.event_dispatchers = {}
    /\ ad.h_port = NoPort
    /\ ad.forwards = {}

\* create() ended by raising after start_adb_logcat failed on device k
LogcatFailedOn(k) == pc = "raised" /\ k \in DOMAIN ads /\ Has(calls, <<"logcat", k>>)

\* create() ended by raising after get_droid or ed.start() failed on device k
Sl4aFailedOn(k) == pc = "raised" /\ k \in DOMAIN ads /\ Has(calls, <<"sl4a", k>>)

\* C1: when create() ends after start_adb_logcat failed on device k, every
\* device before k is torn down (no log collector, session, dispatcher or
\* forwarded port), device k has no log collector, start_adb_logcat and
\* get_droid were not invoked on a device after k, and the caller gets one
\* AndroidDeviceError.
C1_RollbackOnLogcatFailure ==
    \A k \in 1..MaxBatch :
        LogcatFailedOn(k) =>
            /\ \A i \in 1..(k - 1) : TornDown(ads[i])
            /\ ~IsAdbLogcatOn(ads[k]) /\ ads[k].procs = {}
            /\ \A i \in (k + 1)..Len(ads) :
                   ~Has(calls, <<"start_adb_logcat", i>>) /\ ~Has(calls, <<"get_droid", i>>)
            /\ exc = "AndroidDeviceError"

\* C1, the part the code keeps: the same statement for the runs of create()
\* in which no terminate_session of the rollback raised.
C1_RollbackWhenTerminationSucceeds ==
    \A k \in 1..MaxBatch :
        (LogcatFailedOn(k) /\ \A i \in 1..(k - 1) : ~Has(calls, <<"log.exception", i>>))
            => C1_RollbackOnLogcatFailure

\* C1 witness: the third device's log start failed after two devices, one of
\* them with a session, were active.
C1_Witness ==
    /\ LogcatFailedOn(3)
    /\ Has(calls, <<"get_droid", 1>>)
    /\ Has(calls, <<"terminate_session", 1>>)
    /\ ~Has(calls, <<"log.exception", 1>>)
    /\ ~Has(calls, <<"log.exception", 2>>)

\* C2: when create() ends after session establishment failed on device k, no
\* device of the batch, device k included, holds a log collector, a
\* registered session, a dispatcher or a forwarded port.
C2_NoPartiallyActiveFleet ==
    \A k \in 1..MaxBatch :
        Sl4aFailedOn(k) => \A i \in DOMAIN ads : TornDown(ads[i])

\* a device create() leaves fully activated
FullyActivated(ad) ==
    /\ IsAdbLogcatOn(ad)
    /\ ad.procs = {ad.adb_logcat_process}
    /\ IF ad.skip_sl4a
       THEN /\ DOMAIN ad.droid_sessions = {}
            /\ DOMAIN ad.event_dispatchers = {}
            /\ ad.h_port = NoPort
            /\ ad.forwards = {}
       ELSE /\ Cardinality(DOMAIN ad.droid_sessions) = 1
            /\ ad.h_port # NoPort
            /\ ad.forwards = {ad.h_port}
            /\ \A u \in DOMAIN ad.droid_sessions :
                   /\ ad.droid_sessions[u][1] \in ad.conns
                   /\ DOMAIN ad.event_dispatchers = {EdKey(ad, u)}
                   /\ ad.event_dispatchers[EdKey(ad, u)].started
                   /\ ad.event_dispatchers[EdKey(ad, u)].droid \in ad.conns
                   /\ ad.event_dispatchers[EdKey(ad, u)].droid.uid = u

\* C3: when create() returns, every device of the list is fully activated.
C3_ReturnedFleetIsActive ==
    pc = "returned" => \A i \in DOMAIN ads : FullyActivated(ads[i])

\* C3 witness: create() returned a list with a device that skips sl4a and a
\* device that has a session.
C3_Witness ==
    /\ pc = "returned"
    /\ \E i, j \in DOMAIN ads : ads[i].skip_sl4a /\ ~ads[j].skip_sl4a

\* the configuration is empty, not a list, holds a dict without "serial", or
\* names a serial that is not attached
ConfigError(cfg, connected) ==
    \/ cfg.kind \in {"empty", "notlist"}
    \/ cfg.kind = "dicts" /\ \E i \in DOMAIN cfg.items : "serial" \notin DOMAIN cfg.items[i]
    \/ cfg.kind = "dicts" /\ \E i \in DOMAIN cfg.items :
           "serial" \in DOMAIN cfg.items[i] /\ cfg.items[i]["serial"] \notin connected
    \/ cfg.kind = "serials" /\ \E i \in DOMAIN cfg.items : cfg.items[i] \notin connected

\* the error create() raises for it
ConfigErrorRaised(cfg) ==
    IF \/ cfg.kind \in {"empty", "notlist"}
       \/ cfg.kind = "dicts" /\ \E i \in DOMAIN cfg.items : "serial" \notin DOMAIN cfg.items[i]
    THEN "AndroidDeviceError"
    ELSE "DoesNotExistError"

Count(cs, e) == Cardinality({j \in 1..Len(cs) : cs[j] = e})

Errors == {"ConnectError", "SL4AException"}

\* C5: within one get_droid call adb.start_sl4a is triggered at most once and
\* only right after the first start_new_session failed (and then always);
\* start_new_session is attempted at most twice; when the second attempt
\* fails its error reaches the caller and nothing more is attempted.
C5_GetDroidRetriesOnce ==
    last.op = "get_droid" =>
        /\ calls[1] = "tcp_forward" /\ calls[2] = "start_new_session"
        /\ Count(calls, "start_sl4a") <= 1
        /\ Count(calls, "start_new_session") <= 2
        /\ \A j \in 1..Len(calls) :
               calls[j] = "start_sl4a" => j = 4 /\ calls[3] \in Errors
        /\ (Len(calls) >= 3 /\ calls[3] \in Errors) =>
               Len(calls) >= 5 /\ calls[4] = "start_sl4a" /\ calls[5] = "start_new_session"
        /\ (Len(calls) >= 6 /\ calls[6] \in Errors) =>
               Len(calls) = 6 /\ exc = calls[6] /\ ret.droid = NoDroid

\* C5 witness: a get_droid call whose two attempts both failed.
C5_Witness ==
    /\ last.op = "get_droid"
    /\ Count(calls, "start_sl4a") = 1
    /\ Count(calls, "start_new_session") = 2
    /\ exc \in Errors

\* C6: when start_new_session gets from the server an id that is a key of the
\* session map, it raises SL4AException and the session map and the
\* dispatcher map are what they were before the call.
C6_CollisionLeavesRegistry ==
    [][(last'.op = "start_new_session" /\ last'.arg \in DOMAIN ads[1].droid_sessions) =>
          /\ exc' = "SL4AException"
          /\ ret'.droid = NoDroid
          /\ ads'[1].droid_sessions = ads[1].droid_sessions
          /\ ads'[1].event_dispatchers = ads[1].event_dispatchers]_vars

\* C6 witness: start_new_session raised SL4AException on a device that has a
\* session with a dispatcher.
C6_Witness ==
    /\ last.op = "start_new_session"
    /\ exc = "SL4AException"
    /\ last.arg \in DOMAIN ads[1].droid_sessions
    /\ EdKey(ads[1], last.arg) \in DOMAIN ads[1].event_dispatchers

\* C7: when the first open attempt of get_droid gets an already registered
\* session id, the duplicate-id error reaches the caller of get_droid and
\* get_droid returns no session.
C7_ViolationReachesCaller ==
    (last.op = "get_droid" /\ Len(calls) >= 3 /\ calls[3] = "SL4AException") =>
        exc = "SL4AException" /\ ret.droid = NoDroid

\* C8: get_dispatcher for a registered session returns the dispatcher of the
\* session's key; when the key has a dispatcher the call returns that very
\* object, opens no connection and changes nothing; when it has none the call
\* opens exactly one connection and adds exactly that one entry; and no call
\* other than a termination changes or removes a dispatcher entry.  So two
\* calls with no termination in between return the identical dispatcher,
\* with one connection opened and one entry for the session.
C8_GetDispatcherIdempotent ==
    [][/\ (last'.op = "get_dispatcher" /\ exc' = ""
             /\ last'.arg \in DOMAIN ads[1].droid_sessions) =>
            LET key == EdKey(ads[1], last'.arg)
                old == ads[1].event_dispatchers
                new == ads'[1].event_dispatchers
            IN  /\ key \in DOMAIN new
                /\ ret'.ed = new[key]
                /\ IF key \in DOMAIN old
                   THEN ret'.ed = old[key] /\ ads'[1] = ads[1] /\ calls' = <<>>
                   ELSE /\ ret'.ed.droid \notin ads[1].conns
                        /\ ads'[1].conns = ads[1].conns \cup {ret'.ed.droid}
                        /\ ads'[1].unregistered = ads[1].unregistered
                        /\ DOMAIN new = DOMAIN old \cup {key}
                        /\ \A k \in DOMAIN old : new[k] = old[k]
       /\ last'.op \notin {"terminate_session", "terminate_all_sessions"} =>
            \A k \in DOMAIN ads[1].event_dispatchers :
                /\ k \in DOMAIN ads'[1].event_dispatchers
                /\ ads'[1].event_dispatchers[k] = ads[1].event_dispatchers[k]]_vars

\* C8 witness: get_dispatcher returned the dispatcher a registered session
\* already had, while a second session is registered.
C8_Witness ==
    /\ last.op = "get_dispatcher"
    /\ exc = ""
    /\ calls = <<>>
    /\ last.arg \in DOMAIN ads[1].droid_sessions
    /\ ret.ed = ads[1].event_dispatchers[EdKey(ads[1], last.arg)]
    /\ Cardinality(DOMAIN ads[1].droid_sessions) = 2

\* C9: add_new_connection_to_session with an id that is not in the session
\* map raises DoesNotExistError, opens no connection and leaves the device as
\* it was; get_dispatcher with an Android object of such an id (a session
\* already terminated) fails the same way and creates no dispatcher entry.
C9_UnknownSessionRejected ==
    [][(last'.op \in {"add_new_connection_to_session", "get_dispatcher"}
          /\ last'.arg \notin DOMAIN ads[1].droid_sessions) =>
          /\ exc' = "DoesNotExistError"
          /\ calls' = <<>>
          /\ ads'[1] = ads[1]]_vars

\* the least element of a set of ints
Least(S) == CHOOSE x \in S : \A y \in S : x <= y

\* C10: droid is the primary connection of the numerically lowest registered
\* session id, ed is the dispatcher of the numerically lowest session id that
\* has a dispatcher, so when every session has a dispatcher both belong to one
\* session; each is None when its map is empty.
C10_LowestIdWins ==
    LET ad == ads[1]
        sessions == DOMAIN ad.droid_sessions
        with_ed == {u \in Uids : EdKey(ad, u) \in DOMAIN ad.event_dispatchers}
    IN  /\ Droid(ad) = IF sessions = {} THEN NoDroid
                       ELSE ad.droid_sessions[Least(sessions)][1]
        /\ Ed(ad) = IF DOMAIN ad.event_dispatchers = {} THEN NoEd
                    ELSE ad.event_dispatchers[EdKey(ad, Least(with_ed))]
        /\ (sessions # {} /\ sessions = with_ed) => Ed(ad).droid.uid = Droid(ad).uid

\* C11: for every index i of eds, droids has an index i and eds[i] is the
\* dispatcher registered for the session whose primary connection is droids[i].
C11_EdsIndexMatchesDroids ==
    LET ad == ads[1]
    IN  \A i \in DOMAIN Eds(ad) :
            /\ i \in DOMAIN Droids(ad)
            /\ EdKey(ad, Droids(ad)[i].uid) \in DOMAIN ad.event_dispatchers
            /\ Eds(ad)[i] = ad.event_dispatchers[EdKey(ad, Droids(ad)[i].uid)]

\* the sessions and the dispatchers of ad correspond one to one
AllDispatched(ad) ==
    /\ \A u \in DOMAIN ad.droid_sessions : EdKey(ad, u) \in DOMAIN ad.event_dispatchers
    /\ \A k \in DOMAIN ad.event_dispatchers :
           \E u \in DOMAIN ad.droid_sessions : k = EdKey(ad, u)

\* C11, only in the states where every session has its dispatcher and every
\* dispatcher its session.
C11_IndexMatchesWhenAllDispatched ==
    AllDispatched(ads[1]) => C11_EdsIndexMatchesDroids

\* C12: a terminate_all_sessions call on a device with registered sessions
\* attempts terminate_session once for every registered session, whatever
\* the earlier attempts raised, does not raise, and ends with the port
\* release: the host port is unset and, when one was set, its forward is
\* removed after the last attempt.
C12_TerminateAllContinues ==
    [][(last'.op = "terminate_all_sessions" /\ DOMAIN ads[1].droid_sessions # {}) =>
          /\ exc' = ""
          /\ Count(calls', "terminate_session") = Cardinality(DOMAIN ads[1].droid_sessions)
          /\ ads'[1].h_port = NoPort
          /\ ads[1].h_port # NoPort =>
                /\ calls'[Len(calls')] = "forward_remove"
                /\ Count(calls', "forward_remove") = 1
                /\ ads[1].h_port \notin ads'[1].forwards]_vars

\* C12 witness: terminate_all_sessions logged the failure of one termination,
\* attempted another one after it and then released the port.
C12_Witness ==
    /\ last.op = "terminate_all_sessions"
    /\ exc = ""
    /\ \E i, j \in 1..Len(calls) :
          i < j /\ calls[i] = "log.exception" /\ calls[j] = "terminate_session"
    /\ calls[Len(calls)] = "forward_remove"

\* C13: after every terminate_all_sessions call the device's host port is
\* unset and the port it had forwarded before the call is forwarded no more,
\* whatever calls preceded it.
C13_TerminateAllReleasesPort ==
    [][last'.op = "terminate_all_sessions" =>
          /\ ads'[1].h_port = NoPort
          /\ ads[1].h_port \notin ads'[1].forwards]_vars

(***************************************************************************)
(* Claims about the life of one device, checked under SpecDevice.          *)
(***************************************************************************)
\* C14: after destroy(ads) returns, the device has neither an active
\* log-collector process nor a forwarded host port, whatever state it had
\* reached before the call.
C14_DestroyReleasesPortAndLogcat ==
    (last.op = "destroy" /\ pc = "idle") =>
        /\ ~IsAdbLogcatOn(ads[1])
        /\ ads[1].h_port = NoPort
        /\ ads[1].forwards = {}

\* the part of C14 that the code keeps: the log collector is released, and
\* so is the port of a device that had a registered session
C14_ReleasedWhenSessionsRegistered ==
    [][last'.op = "destroy" =>
          /\ ~IsAdbLogcatOn(ads'[1])
          /\ DOMAIN ads[1].droid_sessions # {} => ads'[1].h_port = NoPort]_vars

\* C15: a device never owns more than one running log-collector process
\* (and the one it owns is the one its handle names); start_adb_logcat while
\* one is active raises AndroidDeviceError, starts no subprocess, and leaves
\* the process handle and the log file path unchanged.
C15_AtMostOneLogCollector ==
    /\ [](/\ Cardinality(ads[1].procs) <= 1
          /\ ads[1].procs = IF IsAdbLogcatOn(ads[1])
                            THEN {ads[1].adb_logcat_process} ELSE {})
    /\ [][(last'.op = "start_adb_logcat" /\ IsAdbLogcatOn(ads[1])) =>
             /\ exc' = "AndroidDeviceError"
             /\ calls' = <<>>
             /\ ads'[1].procs = ads[1].procs
             /\ ads'[1].adb_logcat_process = ads[1].adb_logcat_process
             /\ ads'[1].adb_logcat_file_path = ads[1].adb_logcat_file_path]_vars

\* C15 witness: start_adb_logcat was refused on a device whose collector is
\* running.
C15_Witness ==
    /\ last.op = "start_adb_logcat"
    /\ exc = "AndroidDeviceError"
    /\ IsAdbLogcatOn(ads[1])
    /\ ads[1].procs = {ads[1].adb_logcat_process}
    /\ ads[1].adb_logcat_file_path = LogcatFilePath(ads[1])

\* a occurs in cs, and every b in cs comes after it
Precedes(cs, a, b) ==
    /\ Has(cs, a)
    /\ \A j, k \in 1..Len(cs) : (cs[j] = a /\ cs[k] = b) => j < k

\* the step of reboot() in normal mode up to the channel-level reboot
RebootIssued == pc = "idle" /\ pc' = "reboot"

\* the step in which reboot() in normal mode returns
RebootReturns == pc = "boot" /\ pc' = "idle" /\ exc' = ""

\* C16: in normal mode the log collector (if active) is stopped and all
\* sessions are terminated before the channel-level reboot; the
\* boot-completion wait follows the reboot; root is restored after it; the
\* session is opened after root is restored; its dispatcher is started after
\* that; the log collector is restarted last, only if it was active at entry.
C16_RebootStepOrder ==
    [][/\ RebootIssued =>
            /\ Has(calls', "stop_adb_logcat") <=> IsAdbLogcatOn(ads[1])
            /\ has_adb_log' <=> IsAdbLogcatOn(ads[1])
            /\ Has(calls', "stop_adb_logcat") =>
                  Precedes(calls', "stop_adb_logcat", "adb.reboot")
            /\ Precedes(calls', "terminate_all_sessions", "adb.reboot")
            /\ calls'[Len(calls')] = "adb.reboot"
            /\ Count(calls', "adb.reboot") = 1
       /\ RebootReturns =>
            /\ SubSeq(calls', 1, Len(calls)) = calls
            /\ boot.completed = "1"
            /\ Precedes(calls', "adb.reboot", "wait_for_boot_completion")
            /\ Precedes(calls', "wait_for_boot_completion", "root_adb")
            /\ Precedes(calls', "root_adb", "get_droid")
            /\ Precedes(calls', "get_droid", "ed.start")
            /\ Has(calls', "start_adb_logcat") <=> has_adb_log
            /\ has_adb_log =>
                  /\ Precedes(calls', "ed.start", "start_adb_logcat")
                  /\ calls'[Len(calls')] = "start_adb_logcat"
            /\ \A c \in {"adb.reboot", "wait_for_boot_completion", "root_adb",
                         "get_droid", "ed.start"} : Count(calls', c) = 1]_vars

\* C16 witness: reboot() returned on a device whose log collector was active
\* at entry: it was stopped first and restarted last.
C16_Witness ==
    /\ last.op = "reboot"
    /\ pc = "idle"
    /\ exc = ""
    /\ Len(calls) = 8
    /\ calls[1] = "stop_adb_logcat"
    /\ calls[8] = "start_adb_logcat"

\* after the step, the log collector is active iff it was at the entry of
\* reboot(), and the returned pair is a session registered on the device
\* with that session's own dispatcher, started: a dispatcher on an open
\* connection to the session, built in this step and not left over from a
\* session that existed before
RebootRestored ==
    /\ IsAdbLogcatOn(ads'[1]) <=> has_adb_log
    /\ ret'.droid # NoDroid
    /\ ret'.droid.uid \in DOMAIN ads'[1].droid_sessions
    /\ ads'[1].droid_sessions[ret'.droid.uid][1] = ret'.droid
    /\ EdKey(ads'[1], ret'.droid.uid) \in DOMAIN ads'[1].event_dispatchers
    /\ ret'.ed = ads'[1].event_dispatchers[EdKey(ads'[1], ret'.droid.uid)]
    /\ ret'.ed.started
    /\ ret'.ed.droid.uid = ret'.droid.uid
    /\ ret'.ed.droid \in ads'[1].conns
    /\ EdKey(ads'[1], ret'.droid.uid) \notin DOMAIN ads[1].event_dispatchers

\* C17: when reboot() in normal mode returns successfully, the log collector
\* is active iff it was active when reboot() was called, the returned
\* (droid, ed) pair is a registered session with its own started dispatcher,
\* and no session that existed before the reboot is still registered.
C17_RebootRestoresState ==
    [][RebootReturns =>
          /\ RebootRestored
          /\ \A u \in DOMAIN ads[1].droid_sessions :
                 u \notin DOMAIN ads'[1].droid_sessions]_vars

\* the part of C17 that the code keeps: the same, for a reboot() whose
\* terminate_all_sessions left both maps empty
C17_RestoresWhenCachesCleared ==
    [][(/\ RebootReturns
        /\ DOMAIN ads[1].droid_sessions = {}
        /\ DOMAIN ads[1].event_dispatchers = {}) =>
          /\ RebootRestored
          /\ DOMAIN ads'[1].droid_sessions = {ret'.droid.uid}]_vars

\* C18: if wait_for_boot_completion times out during reboot(), the
\* AndroidDeviceError propagates out of reboot(): the reboot and the wait
\* are not attempted again, and no session is opened, no dispatcher started
\* and no log collector started after the failure.
C18_BootWaitFailureIsFatal ==
    [][(pc = "boot" /\ boot.completed # "1") =>
          /\ pc' = "idle"
          /\ exc' = "AndroidDeviceError"
          /\ calls' = calls
          /\ calls'[Len(calls')] = "wait_for_boot_completion"
          /\ Count(calls', "wait_for_boot_completion") = 1
          /\ Count(calls', "adb.reboot") = 1
          /\ ret' = [droid |-> NoDroid, ed |-> NoEd]
          /\ ads' = ads
          /\ ~IsAdbLogcatOn(ads'[1])]_vars

\* C18 witness: reboot() of a device whose log collector was active and
\* that had a session raised AndroidDeviceError from the boot wait.
C18_Witness ==
    /\ last.op = "reboot"
    /\ pc = "idle"
    /\ exc = "AndroidDeviceError"
    /\ calls = <<"stop_adb_logcat", "terminate_all_sessions", "adb.reboot",
                 "wait_for_boot_completion">>
    /\ DOMAIN ads[1].droid_sessions = {}
    /\ ~IsAdbLogcatOn(ads[1])
    /\ ads[1].adb_logcat_file_path # <<>>

\* C19: when the device is in bootloader mode, reboot() issues only the
\* bootloader-level reboot and returns: no channel-level reboot, no boot
\* wait, and the session map, dispatcher map, forwarded host port and
\* log-collector state are unchanged.
C19_BootloaderRebootOnly ==
    [][(last'.op = "reboot" /\ pc = "idle" /\ IsBootloader(ads[1], fastboot_devices)) =>
          /\ calls' = <<"fastboot.reboot">>
          /\ pc' = "idle"
          /\ exc' = ""
          /\ ret' = [droid |-> NoDroid, ed |-> NoEd]
          /\ ads' = ads]_vars

\* C19 witness: reboot() returned after the bootloader-level reboot on a
\* device with a registered session, a forwarded port and an active log
\* collector, all of them still in place.
C19_Witness ==
    /\ last.op = "reboot"
    /\ calls = <<"fastboot.reboot">>
    /\ DOMAIN ads[1].droid_sessions # {}
    /\ DOMAIN ads[1].event_dispatchers # {}
    /\ ads[1].h_port # NoPort
    /\ IsAdbLogcatOn(ads[1])

(***************************************************************************)
(* Claims about wait_for_boot_completion, checked under SpecBoot.          *)
(***************************************************************************)
\* C20: wait_for_boot_completion returns normally only after a poll
\* answered "1"; every poll before that one (n of them, answering "0" or
\* raising AdbError) was followed by a sleep of the poll interval, so it has
\* slept at least n times 5; no poll is made before wait_for_device has
\* been called; and it does not give up while the polls fit under the
\* ceiling.
C20_BootWaitSuccess ==
    /\ pc = "returned" =>
          /\ exc = ""
          /\ boot.completed = "1"
          /\ boot.polls >= 1
          /\ boot.slept >= (boot.polls - 1) * PollInterval
          /\ boot.now >= boot.timeout_start + boot.slept
    /\ (pc = "shell" \/ boot.polls > 0) => calls = <<"adb.wait_for_device">>
    /\ pc = "entry" => (boot.polls = 0 /\ calls = <<>>)
    /\ pc = "raised" => boot.now >= boot.timeout_start + Timeout

\* C20 witness: the method returned on the fourth poll, after three polls
\* that did not answer "1" and three sleeps of 5.
C20_Witness ==
    /\ pc = "returned"
    /\ boot.completed = "1"
    /\ boot.polls = 4
    /\ boot.slept = 3 * PollInterval

\* C21: with a channel that never reports "1", wait_for_boot_completion
\* terminates by raising AndroidDeviceError (every run ends raised unless
\* some poll answered "1"); it raises only once the 15-minute ceiling
\* measured from entry has elapsed, and it starts no poll after the ceiling
\* has elapsed.
C21_BootWaitTimesOut ==
    /\ <>(pc = "raised" \/ boot.completed = "1")
    /\ [](pc = "raised" =>
             /\ exc = "AndroidDeviceError"
             /\ boot.completed # "1"
             /\ boot.now >= boot.timeout_start + Timeout)
    /\ [](pc = "shell" => boot.now < boot.timeout_start + Timeout)
    /\ [](pc \in {"entry", "while", "shell", "sleep"} => exc = "")

\* C21 witness: the method raised after polls that never answered "1", the
\* last of them started before the ceiling.
C21_Witness ==
    /\ pc = "raised"
    /\ exc = "AndroidDeviceError"
    /\ boot.timeout_start = MaxShellTime
    /\ boot.polls > 1
    /\ boot.completed = "0"
    /\ boot.slept >= Timeout - MaxShellTime

\* C22: an AdbError raised by a poll never leaves wait_for_boot_completion:
\* after a poll that raised, as after one that answered "0", the loop
\* sleeps, and while the ceiling has not elapsed it polls again; a poll that
\* answers "1" ends in a successful return whatever the polls before it did.
C22_AdbErrorSwallowed ==
    /\ [](exc # "AdbError")
    /\ [][/\ pc = "shell" =>
               /\ boot'.polls = boot.polls + 1
               /\ exc' = ""
               /\ pc' = IF boot'.completed = "1" THEN "returned" ELSE "sleep"
          /\ pc = "sleep" =>
               /\ pc' = "while"
               /\ boot'.slept = boot.slept + PollInterval
               /\ boot'.polls = boot.polls
          /\ (pc = "while" /\ boot.now < boot.timeout_start + Timeout) =>
               /\ pc' = "shell"
               /\ exc' = ""]_vars

\* C22 witness: a poll raised AdbError, the loop slept, and the next poll is
\* about to be made.
C22_Witness ==
    /\ pc = "shell"
    /\ boot.completed = "AdbError"
    /\ boot.polls >= 1
    /\ boot.slept = boot.polls * PollInterval
    /\ exc = ""

(***************************************************************************)
(* Claims about cat_adb_log, checked under SpecCat.                        *)
(***************************************************************************)
\* line n of the log has a valid timestamp inside the window, both ends
\* included
InWindow(n) ==
    /\ cat.log[n].valid
    /\ cat.begin_time <= cat.log[n].time
    /\ cat.log[n].time <= cat.end_time

\* the numbers from to .. (to - 1), in order
Run(from, to) == [k \in 1..(to - from) |-> from + k - 1]

\* C23: for a log whose lines all carry valid timestamps, cat_adb_log writes
\* exactly the lines of the first maximal contiguous run of lines whose
\* timestamp lies in [begin_time, end_time], in their original order, and
\* stops scanning at the first out-of-range line met after an in-range line.
C23_FirstContiguousRun ==
    (pc = "done" /\ \A n \in 1..Len(cat.log) : cat.log[n].valid) =>
        IF \A n \in 1..Len(cat.log) : ~InWindow(n)
        THEN cat.out = <<>> /\ cat.pos = Len(cat.log)
        ELSE LET first == Least({n \in 1..Len(cat.log) : InWindow(n)})
                 after == {n \in (first + 1)..Len(cat.log) : ~InWindow(n)}
             IN  IF after = {}
                 THEN cat.out = Run(first, Len(cat.log) + 1) /\ cat.pos = Len(cat.log)
                 ELSE cat.out = Run(first, Least(after)) /\ cat.pos = Least(after)

\* C23 witness: the scan copied the in-range lines 1 and 2 (the second one
\* stamped with the end of the window), stopped at the out-of-range line 3
\* and left the in-range line 4 unread.
C23_Witness ==
    /\ pc = "done"
    /\ Len(cat.log) = 4
    /\ \A n \in 1..4 : cat.log[n].valid
    /\ cat.log[2].time = cat.end_time
    /\ InWindow(4)
    /\ cat.out = <<1, 2>>
    /\ cat.pos = 3

\* C24: a line with an unparseable timestamp prefix is never written to the
\* excerpt, does not end an in-range run in progress (the scan goes on to
\* the next line with in_range as it was), and does not start one.
C24_UnparseableLinesSkipped ==
    /\ [](\A k \in 1..Len(cat.out) : cat.log[cat.out[k]].valid)
    /\ [][(/\ pc = "readline"
           /\ cat.pos < Len(cat.log)
           /\ ~cat.log[cat.pos + 1].valid) =>
             /\ pc' = "readline"
             /\ cat'.pos = cat.pos + 1
             /\ cat'.out = cat.out
             /\ cat'.in_range = cat.in_range]_vars

\* C24 witness: the in-range lines 1 and 3 were copied, the unparseable
\* line 2 between them was not, and the scan went on to the end.
C24_Witness ==
    /\ pc = "done"
    /\ Len(cat.log) = 3
    /\ ~cat.log[2].valid
    /\ cat.out = <<1, 3>>
    /\ cat.pos = 3

(***************************************************************************)
(* Claims about _parse_device_list, checked under SpecParse.               *)
(***************************************************************************)
\* the first columns of the lines of text that have exactly two
\* tab-separated columns, the second equal to key, in input order
MatchingFirstColumns(text, key) ==
    LET lines == Split(text, 10)
        matching == SelectSeq(lines, LAMBDA line : /\ Len(Split(line, 9)) = 2
                                                   /\ Split(line, 9)[2] = key)
    IN  [k \in 1..Len(matching) |-> Split(matching[k], 9)[1]]

\* no line of text begins or ends with a space or a tab
NoPadding(text) ==
    \A k \in 1..Len(Split(text, 10)) :
        LET line == Split(text, 10)[k]
        IN  line # <<>> => (line[1] \notin {9, 32} /\ line[Len(line)] \notin {9, 32})

\* C25: for every device-list text and mode marker, _parse_device_list
\* returns exactly the first columns of the lines that have exactly two
\* tab-separated columns with the second column equal to the marker, in
\* input order; other lines contribute nothing, and the result is the
\* empty list when no line matches.
C25_ParseDeviceList ==
    pc = "returned" =>
        parse.results = MatchingFirstColumns(parse.device_list_str, parse.key)

\* C25 as amended: the same, for every text none of whose lines begins or
\* ends with a space or a tab.
C25_ParseUnpaddedDeviceList ==
    (pc = "returned" /\ NoPadding(parse.device_list_str)) =>
        parse.results = MatchingFirstColumns(parse.device_list_str, parse.key)

\* C25 witness: the first columns of the lines "d<TAB>d" and "A<TAB>d" were
\* returned, in that order.
C25_Witness ==
    /\ pc = "returned"
    /\ parse.device_list_str = <<100, 9, 100, 10, 65, 9, 100>>
    /\ parse.results = <<<<100>>, <<65>>>>

(***************************************************************************)
(* Claims about the forwarded port, checked under SpecDevice.              *)
(***************************************************************************)
\* C26: at most one host port is forwarded for the device at any time, it
\* is the device's current host port, and every registered session was
\* opened over the current host port: no session outlives a change of the
\* host port.
C26_SingleForwardedPort ==
    /\ [](/\ Cardinality(ads[1].forwards) <= 1
          /\ ads[1].forwards \subseteq {ads[1].h_port})
    /\ [][ads'[1].h_port # ads[1].h_port =>
             DOMAIN ads[1].droid_sessions \cap DOMAIN ads'[1].droid_sessions = {}]_vars

\* the part of C26 that the code keeps: a get_droid that finds its host
\* port still available forwards no other port
C26_PortKeptWhenAvailable ==
    [][(last'.op = "get_droid" /\ ads[1].h_port # NoPort
          /\ ads'[1].h_port = ads[1].h_port) =>
             ads'[1].forwards = ads[1].forwards \cup {ads[1].h_port}]_vars

(***************************************************************************)
(* Further claims about the session registry, checked under Spec.          *)
(***************************************************************************)
\* C27: after add_new_connection_to_session succeeds for a session, directly
\* or through get_dispatcher, the session's registry entry lists the
\* connections it had followed by the new auxiliary connection, and a
\* successful terminate_session leaves no connection of the session open.
C27_SessionListsItsConnections ==
    [][/\ (last'.op = "add_new_connection_to_session" /\ exc' = "") =>
             ads'[1].droid_sessions[last'.arg] =
                 Append(ads[1].droid_sessions[last'.arg], ret'.droid)
       /\ (last'.op = "get_dispatcher" /\ exc' = "" /\ Has(calls', "EventDispatcher")) =>
             ads'[1].droid_sessions[last'.arg] =
                 Append(ads[1].droid_sessions[last'.arg], ret'.ed.droid)
       /\ (last'.op = "terminate_session" /\ exc' = "") =>
             /\ \A d \in ads'[1].conns : d.uid # last'.arg
             /\ ads'[1].unregistered = ads[1].unregistered]_vars

\* what the code does instead: a session's registry entry is its primary
\* connection alone, at all times
C27_EntryIsPrimaryOnly ==
    \A u \in DOMAIN ads[1].droid_sessions :
        /\ Len(ads[1].droid_sessions[u]) = 1
        /\ ~ads[1].droid_sessions[u][1].aux

\* the id is in neither registry of the device: no session, no dispatcher
NotRegistered(ad, session_id) ==
    /\ session_id \notin DOMAIN ad.droid_sessions
    /\ EdKey(ad, session_id) \notin DOMAIN ad.event_dispatchers

\* C28: calling terminate_session a second time with the id of a session that
\* was already terminated raises an error instead of completing silently.
C28_DoubleCloseRaises ==
    [][(/\ last.op = "terminate_session" /\ exc = ""
        /\ last'.op = "terminate_session" /\ last'.arg = last.arg) =>
            exc' # ""]_vars

\* C28 as amended: a successful terminate_session leaves its id in neither
\* registry, and terminate_session of an id in neither registry, so also of
\* a session already terminated, completes silently: it raises nothing,
\* closes nothing and leaves the device as it was.
C28_DoubleCloseIsSilent ==
    /\ []((last.op = "terminate_session" /\ exc = "") =>
             NotRegistered(ads[1], last.arg))
    /\ [][(last'.op = "terminate_session" /\ NotRegistered(ads[1], last'.arg)) =>
             /\ exc' = ""
             /\ calls' = <<>>
             /\ ads' = ads]_vars

\* a terminate_session that found nothing to close has returned without an
\* error, on a device whose sessions had been opened and are all terminated
C28_Witness ==
    /\ last.op = "terminate_session"
    /\ exc = ""
    /\ calls = <<>>
    /\ NotRegistered(ads[1], last.arg)
    /\ ads[1].h_port # NoPort
    /\ ads[1].droid_sessions = << >>

Colliding ==
    {load.config[i][1] : i \in 1..Len(load.config)}
        \cap (DOMAIN NoLoad.attrs \cup ExistingAttributes \cup AdbProperties)

\* no attribute the device had has another value, and no property is shadowed
PreviousValuesKept ==
    /\ \A k \in DOMAIN NoLoad.attrs : load.attrs[k] = NoLoad.attrs[k]
    /\ DOMAIN load.attrs \cap (ExistingAttributes \cup AdbProperties) \subseteq DOMAIN NoLoad.attrs

\* C30: if some key of the config names an attribute the device already has,
\* load_config raises AndroidDeviceError and that attribute keeps its
\* previous value; if no key collides, every key of the config becomes an
\* attribute with the configured value.
C30_LoadConfigNeverOverwrites ==
    pc # "entry" =>
        IF Colliding # {}
        THEN exc = "AndroidDeviceError" /\ PreviousValuesKept
        ELSE /\ exc = ""
             /\ \A i \in 1..Len(load.config) :
                    /\ load.config[i][1] \in DOMAIN load.attrs
                    /\ load.attrs[load.config[i][1]] = load.config[i][2]

\* what the code keeps: a collision makes load_config raise, though not
\* always AndroidDeviceError, and nothing the device had is overwritten
C30_CollisionRaisesSomething ==
    pc # "entry" =>
        IF Colliding # {}
        THEN exc # "" /\ PreviousValuesKept
        ELSE /\ exc = ""
             /\ \A i \in 1..Len(load.config) :
                    /\ load.config[i][1] \in DOMAIN load.attrs
                    /\ load.attrs[load.config[i][1]] = load.config[i][2]

(***************************************************************************)
(* Claims about get_device, checked under SpecGet.                         *)
(***************************************************************************)
\* the device has the attribute the condition names, with the value given;
\* a device whose adb does not answer has no value for `model`
Meets(ad, cond) ==
    IF cond[1] \in DOMAIN ad.attrs THEN ad.attrs[cond[1]] = cond[2]
    ELSE cond[1] \in AdbProperties /\ ad.adb_ok /\ ad.model = cond[2]

\* the positions of the list whose device meets every condition
Matching ==
    {i \in 1..Len(get.ads) : \A c \in 1..Len(get.kwargs) : Meets(get.ads[i], get.kwargs[c])}

\* C31: get_device returns a device if and only if exactly one device of the
\* list has all the named attributes with the given values, and that device
\* is the result; it raises AndroidDeviceError when no device or more than
\* one device matches.
C31_GetDeviceUniqueMatch ==
    pc # "entry" =>
        IF Cardinality(Matching) = 1
        THEN exc = "" /\ get.ret \in Matching
        ELSE exc = "AndroidDeviceError" /\ get.ret = 0

\* what the code keeps: the same, for the calls in which no getter raised
C31_UniqueMatchWhenGettersAnswer ==
    (pc # "entry" /\ exc # "AdbError") =>
        IF Cardinality(Matching) = 1
        THEN exc = "" /\ get.ret \in Matching
        ELSE exc = "AndroidDeviceError" /\ get.ret = 0

(***************************************************************************)
(* Further claims about create(), checked under SpecCreate.                *)
(***************************************************************************)
\* the calls create() makes to bring a device up
BringUpCalls == {"start_adb_logcat", "get_droid", "ed.start"}

\* C32: in create(), on each device start_adb_logcat comes before get_droid
\* and get_droid before ed.start(); a device is on the active list only when
\* its steps succeeded (log collector running and, unless it skips sl4a, a
\* session with a started dispatcher); devices are processed in list order,
\* so a step is taken on a device only when every device before it is on
\* the active list.
C32_BringUpOrder ==
    /\ pc \in {"loop", "returned", "raised"} =>
          /\ active_ads = [i \in 1..Len(active_ads) |-> i]
          /\ \A p \in 1..Len(calls) :
                calls[p][1] \in BringUpCalls =>
                   /\ calls[p][1] = "get_droid" =>
                         \E q \in 1..(p - 1) : calls[q] = <<"start_adb_logcat", calls[p][2]>>
                   /\ calls[p][1] = "ed.start" =>
                         \E q \in 1..(p - 1) : calls[q] = <<"get_droid", calls[p][2]>>
                   /\ \A q \in 1..Len(calls) :
                         (calls[q][1] \in BringUpCalls /\ calls[q][2] < calls[p][2]) => q < p
                   /\ \A i \in 1..(calls[p][2] - 1) : Has(active_ads, i)
                   /\ calls[p][2] <= Len(active_ads) + 1
          /\ \A i \in 1..Len(active_ads) :
                /\ Has(calls, <<"start_adb_logcat", i>>)
                /\ ~ads[i].skip_sl4a =>
                      Has(calls, <<"get_droid", i>>) /\ Has(calls, <<"ed.start", i>>)
    /\ pc \in {"loop", "returned"} =>
          \A i \in 1..Len(active_ads) : FullyActivated(ads[active_ads[i]])

\* C32 witness: create() is between two devices: the first is on the active
\* list after its three steps, in order, and no step was taken on the second
C32_Witness ==
    /\ pc = "loop"
    /\ Len(ads) = 2
    /\ active_ads = <<1>>
    /\ calls = <<<<"start_adb_logcat", 1>>, <<"get_droid", 1>>, <<"ed.start", 1>>>>

(***************************************************************************)
(* Claims about the independence of sessions and the caches, checked under *)
(* Spec.                                                                   *)
(***************************************************************************)
\* what the device holds for session b: its registry entry, whether its
\* primary connection is open, its dispatcher and whether the dispatcher's
\* connection is open
Holding(ad, b) ==
    [entry |-> ad.droid_sessions[b],
     primary_open |-> ad.droid_sessions[b][1] \in ad.conns,
     ed |-> IF EdKey(ad, b) \in DOMAIN ad.event_dispatchers
            THEN <<ad.event_dispatchers[EdKey(ad, b)],
                   ad.event_dispatchers[EdKey(ad, b)].droid \in ad.conns>>
            ELSE <<>>]

\* C33: terminate_session(a) leaves every other registered session b as it
\* was (registry entry, primary connection, dispatcher) and the forwarded
\* host port unchanged, and when it returns, a's entry and a's dispatcher
\* are gone.
C33_SessionsAreIndependent ==
    [][last'.op = "terminate_session" =>
          /\ \A b \in DOMAIN ads[1].droid_sessions \ {last'.arg} :
                /\ b \in DOMAIN ads'[1].droid_sessions
                /\ Holding(ads'[1], b) = Holding(ads[1], b)
          /\ ads'[1].h_port = ads[1].h_port
          /\ ads'[1].forwards = ads[1].forwards
          /\ exc' = "" => NotRegistered(ads'[1], last'.arg)]_vars

\* C33 witness: a session with a dispatcher was terminated while another
\* session with its started dispatcher stays registered
C33_Witness ==
    /\ last.op = "terminate_session"
    /\ exc = ""
    /\ calls = <<"closeSl4aSession", "close", "clean_up">>
    /\ \E b \in DOMAIN ads[1].droid_sessions :
          /\ b # last.arg
          /\ Holding(ads[1], b).primary_open
          /\ Holding(ads[1], b).ed # <<>>

\* C34: after terminate_all_sessions returns, the device's session map and
\* dispatcher map are both empty, also when the termination of one or more
\* sessions raised and was logged.
C34_TerminateAllClearsCaches ==
    [][(last'.op = "terminate_all_sessions" /\ exc' = "") =>
          /\ DOMAIN ads'[1].droid_sessions = {}
          /\ DOMAIN ads'[1].event_dispatchers = {}]_vars

\* what the code keeps: the caches are empty after a terminate_all_sessions
\* in which no termination raised, on a device whose dispatchers all belong
\* to registered sessions
C34_ClearsWhenNothingRaises ==
    [][(/\ last'.op = "terminate_all_sessions" /\ exc' = ""
        /\ ~Has(calls', "log.exception")
        /\ \A u \in Uids : EdKey(ads[1], u) \in DOMAIN ads[1].event_dispatchers =>
                              u \in DOMAIN ads[1].droid_sessions) =>
          /\ DOMAIN ads'[1].droid_sessions = {}
          /\ DOMAIN ads'[1].event_dispatchers = {}]_vars

\* C35: each key of the dispatcher map is the key of a session id that is
\* in the session map.  (A session has at most one dispatcher because the
\* map holds one entry per key.)
C35_DispatcherHasRegisteredSession ==
    \A ed_key \in DOMAIN ads[1].event_dispatchers :
        \E u \in DOMAIN ads[1].droid_sessions : ed_key = EdKey(ads[1], u)

\* what the code keeps: a dispatcher is added only for a registered session,
\* and a dispatcher outlives its session only through a terminate_session
\* that raised
C35_OrphanedOnlyByFailedTermination ==
    [][(C35_DispatcherHasRegisteredSession /\ ~C35_DispatcherHasRegisteredSession') =>
          \/ last'.op = "terminate_session" /\ exc' = "CleanUpError"
          \/ last'.op = "terminate_all_sessions" /\ Has(calls', "log.exception")]_vars

\* the calls C36 speaks of
SessionCalls ==
    {"start_new_session", "get_droid", "get_dispatcher", "terminate_session",
     "terminate_all_sessions"}

\* C36: after start_new_session, get_droid, get_dispatcher and the terminate
\* calls, every connection that was opened and not closed is a session's
\* connection or the connection of a registered dispatcher: none of these
\* calls, failed ones included, leaves an open connection that neither map
\* refers to.
C36_NoConnectionLeaked ==
    [][last'.op \in SessionCalls =>
          /\ ads'[1].unregistered = ads[1].unregistered
          /\ ads'[1].conns \subseteq Registered(ads'[1])]_vars

\* what the code keeps: a start_new_session, get_droid or get_dispatcher
\* that succeeds without a second attempt leaves every connection it
\* opened registered
C36_SuccessfulOpeningLeaksNothing ==
    [][(last'.op \in {"start_new_session", "get_droid", "get_dispatcher"}
          /\ exc' = "" /\ ~Has(calls', "start_sl4a")) =>
              ads'[1].unregistered = ads[1].unregistered]_vars

(***************************************************************************)
(* Further claims about cat_adb_log, checked under SpecCat, where last is  *)
(* the call made on the device before cat_adb_log: none ("init"),          *)
(* start_adb_logcat, or stop_adb_logcat after start_adb_logcat.            *)
(***************************************************************************)
\* C37: cat_adb_log raises AndroidDeviceError and writes nothing when no log
\* collector was ever started on the device; once a collector has been
\* started the log file path is set and survives stop_adb_logcat, which
\* clears only the process handle, so cat_adb_log does not refuse.
C37_CatAvailability ==
    /\ (last.op = "init" /\ pc # "entry") =>
          /\ pc = "raised"
          /\ exc = "AndroidDeviceError"
          /\ calls = <<>>
          /\ cat.out = <<>>
    /\ last.op \in {"start_adb_logcat", "stop_adb_logcat"} =>
          /\ ads[1].adb_logcat_file_path = LogcatFilePath(ads[1])
          /\ IsAdbLogcatOn(ads[1]) <=> last.op = "start_adb_logcat"
          /\ pc # "raised"
          /\ exc = ""

\* C37 witness: an excerpt was written on a device whose collector had been
\* stopped
C37_Witness ==
    /\ last.op = "stop_adb_logcat"
    /\ ~IsAdbLogcatOn(ads[1])
    /\ pc = "done"
    /\ cat.out # <<>>

(***************************************************************************)
(* Further claims about _parse_device_list, checked under SpecParse.       *)
(***************************************************************************)
\* C38: the list returned by _parse_device_list contains each serial at
\* most once, also when the tool output repeats a line.
C38_SerialsAreUnique ==
    pc = "returned" =>
        \A i, j \in 1..Len(parse.results) :
            parse.results[i] = parse.results[j] => i = j

\* what the code keeps: one entry per matching line, so the list is as long
\* as the text has lines naming the key in their second column
C38_OneEntryPerMatchingLine ==
    pc = "returned" =>
        Len(parse.results) =
            Cardinality({n \in 1..Len(Split(Strip(parse.device_list_str), 10)) :
                LET tokens == Split(Strip(Split(Strip(parse.device_list_str), 10)[n]), 9)
                IN  Len(tokens) = 2 /\ tokens[2] = parse.key})

(***************************************************************************)
(* Claims about the excerpt file name, checked under SpecName.             *)
(***************************************************************************)
\* C39: the name built by cat_adb_log is the tag cut to its first
\* MAX_FILENAME_LEN - len(suffix) characters (none of it when that is not
\* positive) followed by the suffix ",<begin_time>,<name>.txt", and its
\* length never exceeds MAX_FILENAME_LEN, also when the suffix alone is
\* longer than MAX_FILENAME_LEN.
C39_NameFitsMaximumLength ==
    pc = "named" =>
        LET suffix == OutNameSuffix(name.begin_time, name.f_name)
            room == IF MAX_FILENAME_LEN > Len(suffix)
                    THEN MAX_FILENAME_LEN - Len(suffix) ELSE 0
        IN  /\ name.out_name =
                   SubSeq(name.tag, 1, IF room < Len(name.tag) THEN room ELSE Len(name.tag))
                       \o suffix
            /\ Len(name.out_name) <= MAX_FILENAME_LEN

\* what the code keeps: the claim for suffixes that fit by themselves
C39_FitsWhenSuffixFits ==
    (pc = "named"
       /\ Len(OutNameSuffix(name.begin_time, name.f_name)) <= MAX_FILENAME_LEN) =>
        /\ Len(name.out_name) <= MAX_FILENAME_LEN
        /\ name.out_name =
               SubSeq(name.tag, 1,
                      IF MAX_FILENAME_LEN - Len(OutNameSuffix(name.begin_time, name.f_name))
                            < Len(name.tag)
                      THEN MAX_FILENAME_LEN - Len(OutNameSuffix(name.begin_time, name.f_name))
                      ELSE Len(name.tag))
                   \o OutNameSuffix(name.begin_time, name.f_name)

C40_OnlySerialRemoved ==
    [][/\ configs'.kind = configs.kind
       /\ DOMAIN configs'.items = DOMAIN configs.items
       /\ \A i \in DOMAIN configs.items :
             \/ configs'.items[i] = configs.items[i]
             \/ /\ configs.kind = "dicts"
                /\ "serial" \in DOMAIN configs.items[i]
                /\ configs'.items[i] = DictDel(configs.items[i], "serial")]_vars
====
